---- MODULE Spec2Model ----
(***************************************************************************)
(* Receipt understanding pipeline of the finance application               *)
(* (backend/src/services/ocrService.js): processReceipt and the extractors *)
(* it runs over the OCR text.                                              *)
(*                                                                         *)
(* A text is a sequence of characters, each character a one-element        *)
(* string; the regular expressions of the source are matched character by  *)
(* character, as the JavaScript engine matches them (leftmost match,       *)
(* greedy quantifiers).  A value computed once and used several times is   *)
(* passed to an operator as a parameter.                                   *)
(***************************************************************************)
EXTENDS Integers, Sequences, FiniteSets, TLC

VARIABLES pc, extractedText, result

\* one call of processReceipt followed through its awaits
ocrVars == <<pc, extractedText, result>>

VARIABLES calls, table, clock

\* several calls of processReceipt in flight and the state of the module
callVars == <<calls, table, clock>>

VARIABLES files, transactions, response, nextId

\* the server: the stored receipt files, the Transaction collection, the
\* response sent last and the next _id
serverVars == <<files, transactions, response, nextId>>

vars == <<pc, extractedText, result, calls, table, clock, files, transactions, response, nextId>>

-----------------------------------------------------------------------------
(* Characters and JavaScript values *)

Rupee == "₹"

NL == "\n"

Digits == {"0", "1", "2", "3", "4", "5", "6", "7", "8", "9"}

\* \s of the regular expressions, and the characters trim() removes
Whitespace == {" ", NL, "\t"}

UpperCase == {"A", "B", "C", "D", "E", "F", "G", "H", "I", "J", "K", "L", "M",
              "N", "O", "P", "Q", "R", "S", "T", "U", "V", "W", "X", "Y", "Z"}

IsDigit(c) == c \in Digits

IsSpace(c) == c \in Whitespace

DigitVal(c) ==
  CASE c = "0" -> 0 [] c = "1" -> 1 [] c = "2" -> 2 [] c = "3" -> 3
    [] c = "4" -> 4 [] c = "5" -> 5 [] c = "6" -> 6 [] c = "7" -> 7
    [] c = "8" -> 8 [] c = "9" -> 9

LowerOf ==
  [c \in UpperCase |->
     CASE c = "A" -> "a" [] c = "B" -> "b" [] c = "C" -> "c" [] c = "D" -> "d"
       [] c = "E" -> "e" [] c = "F" -> "f" [] c = "G" -> "g" [] c = "H" -> "h"
       [] c = "I" -> "i" [] c = "J" -> "j" [] c = "K" -> "k" [] c = "L" -> "l"
       [] c = "M" -> "m" [] c = "N" -> "n" [] c = "O" -> "o" [] c = "P" -> "p"
       [] c = "Q" -> "q" [] c = "R" -> "r" [] c = "S" -> "s" [] c = "T" -> "t"
       [] c = "U" -> "u" [] c = "V" -> "v" [] c = "W" -> "w" [] c = "X" -> "x"
       [] c = "Y" -> "y" [] c = "Z" -> "z"]

\* String.prototype.toLowerCase on one character
Lower(c) == IF c \in UpperCase THEN LowerOf[c] ELSE c

ToLowerCase(s) == [k \in 1..Len(s) |-> Lower(s[k])]

\* the character of t at index i (1-based), "" past either end
At(t, i) == IF i >= 1 /\ i <= Len(t) THEN t[i] ELSE ""

\* a character as the pattern compares it: case folded under the i flag
Fold(c, ignoreCase) == IF ignoreCase THEN Lower(c) ELSE c

\* null and NaN of JavaScript; a number is its integer part and its
\* fraction digits without trailing zeros
Null == [kind |-> "null"]

NaN == [kind |-> "NaN"]

Number(i, f) == [kind |-> "number", int |-> i, frac |-> f]

IsNull(v) == v.kind = "null"

IsNumber(v) == v.kind = "number"

\* truthiness of a value that is a number, NaN or null
Truthy(v) == IsNumber(v) /\ (v.int # 0 \/ v.frac # <<>>)

GreaterThanZero(v) == IsNumber(v) /\ (v.int > 0 \/ v.frac # <<>>)

LessThan(v, n) == IsNumber(v) /\ v.int < n

\* Math.min
Min(a, b) == IF a < b THEN a ELSE b

-----------------------------------------------------------------------------
(* Fragments of the regular expressions.  A matcher takes the text and the *)
(* index it starts at and gives the index after the match, 0 for no match. *)

RECURSIVE DigitsEnd(_, _)
\* \d* from i: the index after the longest run of digits
DigitsEnd(t, i) == IF IsDigit(At(t, i)) THEN DigitsEnd(t, i + 1) ELSE i

RECURSIVE CommaGroupsEnd(_, _)
\* (?:,\d+)* from i
CommaGroupsEnd(t, i) ==
  IF At(t, i) = "," /\ IsDigit(At(t, i + 1))
  THEN CommaGroupsEnd(t, DigitsEnd(t, i + 1))
  ELSE i

\* (?:\.\d{2})? from i
FractionEnd(t, i) ==
  IF At(t, i) = "." /\ IsDigit(At(t, i + 1)) /\ IsDigit(At(t, i + 2))
  THEN i + 3
  ELSE i

\* \d+(?:,\d+)*(?:\.\d{2})? from i
NumTokenEnd(t, i) ==
  IF IsDigit(At(t, i))
  THEN FractionEnd(t, CommaGroupsEnd(t, DigitsEnd(t, i)))
  ELSE 0

RECURSIVE SkipSpaces(_, _)
\* \s* from i
SkipSpaces(t, i) == IF IsSpace(At(t, i)) THEN SkipSpaces(t, i + 1) ELSE i

RECURSIVE SkipColonSpaces(_, _)
\* [:\s]* from i
SkipColonSpaces(t, i) ==
  IF At(t, i) = ":" \/ IsSpace(At(t, i)) THEN SkipColonSpaces(t, i + 1) ELSE i

\* (?:rs\.?|₹) from i
MarkerEnd(t, i, ignoreCase) ==
  IF Fold(At(t, i), ignoreCase) = "r" /\ Fold(At(t, i + 1), ignoreCase) = "s"
  THEN (IF At(t, i + 2) = "." THEN i + 3 ELSE i + 2)
  ELSE IF At(t, i) = Rupee THEN i + 1 ELSE 0

\* m, or i when m is no match
OrSame(m, i) == IF m = 0 THEN i ELSE m

\* (?:rs\.?|₹)? from i
OptionalMarkerEnd(t, i, ignoreCase) == OrSame(MarkerEnd(t, i, ignoreCase), i)

\* the literal word w (lower case) from i
WordEnd(t, i, w, ignoreCase) ==
  IF i >= 1 /\ \A k \in 1..Len(w) : Fold(At(t, i + k - 1), ignoreCase) = w[k]
  THEN i + Len(w)
  ELSE 0

-----------------------------------------------------------------------------
(* amountPatterns: the four regular expressions, in the order of the list  *)

\* a match: the text indices of the whole match (from, to exclusive) and of
\* capture group 1 (gfrom, gto exclusive)
NoMatch == [from |-> 0, to |-> 0, gfrom |-> 0, gto |-> 0]

MatchOf(p, e, g, h) == [from |-> p, to |-> e, gfrom |-> g, gto |-> h]

IsMatch(m) == m.to # 0

\* the match m, or the next thing to try
OrElse(m, other) == IF IsMatch(m) THEN m ELSE other

\* (?:total|amount|grand total|net amount|payable), in the order written
AmountKeywords ==
  << <<"t", "o", "t", "a", "l">>,
     <<"a", "m", "o", "u", "n", "t">>,
     <<"g", "r", "a", "n", "d", " ", "t", "o", "t", "a", "l">>,
     <<"n", "e", "t", " ", "a", "m", "o", "u", "n", "t">>,
     <<"p", "a", "y", "a", "b", "l", "e">> >>

\* a match from p whose last part is capture group 1, from b to e
Capture(p, b, e) == IF e = 0 THEN NoMatch ELSE MatchOf(p, e, b, e)

\* (\d+(?:,\d+)*(?:\.\d{2})?) at b, ending a match that began at p
NumberGroup(t, p, b) == Capture(p, b, NumTokenEnd(t, b))

\* what follows the keyword in the first pattern, from q:
\* [:\s]*(?:rs\.?|₹)?\s*(\d+(?:,\d+)*(?:\.\d{2})?) under the i flag.
\* Every quantifier takes its longest match and no shorter one can succeed:
\* the character after [:\s]*, after the marker and after \s* is one the
\* skipped part cannot give to the digits.
LabeledTail(t, p, q) ==
  IF q = 0 THEN NoMatch
  ELSE NumberGroup(t, p, SkipSpaces(t, OptionalMarkerEnd(t, SkipColonSpaces(t, q), TRUE)))

\* pattern 1 with alternative k of the keyword group, at p
LabeledTotalVia(t, p, k) == LabeledTail(t, p, WordEnd(t, p, AmountKeywords[k], TRUE))

RECURSIVE LabeledTotalFrom(_, _, _)
\* the alternatives from k on, in order: the first with which the rest matches
LabeledTotalFrom(t, p, k) ==
  IF k > Len(AmountKeywords) THEN NoMatch
  ELSE OrElse(LabeledTotalVia(t, p, k), LabeledTotalFrom(t, p, k + 1))

\* /(?:total|amount|grand total|net amount|payable)[:\s]*(?:rs\.?|₹)?\s*(\d+(?:,\d+)*(?:\.\d{2})?)/i
\* at p
LabeledTotalAt(t, p) == LabeledTotalFrom(t, p, 1)

\* /(?:rs\.?|₹)\s*(\d+(?:,\d+)*(?:\.\d{2})?)/g at p: no i flag
CurrencyLedAt(t, p) == NumberGroup(t, p, SkipSpaces(t, MarkerEnd(t, p, FALSE)))

\* a match from p of a number that ends at n and a marker that ends at m
TrailedClose(p, n, m) == IF n = 0 \/ m = 0 THEN NoMatch ELSE MatchOf(p, m, p, n)

\* \s*(?:rs\.?|₹) after the number that ends at n
TrailedMarker(t, p, n) == TrailedClose(p, n, MarkerEnd(t, SkipSpaces(t, n), FALSE))

\* /(\d+(?:,\d+)*(?:\.\d{2})?)\s*(?:rs\.?|₹)/g at p: no i flag.
\* A shorter number leaves a digit, a comma or a point before the marker,
\* so only the longest number can be followed by it.
CurrencyTrailedAt(t, p) == TrailedMarker(t, p, NumTokenEnd(t, p))

\* [:\s]+ from q to a, then the number
BareNumber(t, p, q, a) == IF q = 0 \/ a = q THEN NoMatch ELSE NumberGroup(t, p, a)

\* /total[:\s]+(\d+(?:,\d+)*(?:\.\d{2})?)/i after the word, from q
BareTail(t, p, q) == BareNumber(t, p, q, SkipColonSpaces(t, q))

\* /total[:\s]+(\d+(?:,\d+)*(?:\.\d{2})?)/i at p
BareTotalAt(t, p) == BareTail(t, p, WordEnd(t, p, <<"t", "o", "t", "a", "l">>, TRUE))

NumAmountPatterns == 4

\* the patterns with the g flag
IsGlobal(n) == n \in {2, 3}

\* amountPatterns[n - 1] tried at index p of t
AmountPatternAt(n, t, p) ==
  CASE n = 1 -> LabeledTotalAt(t, p)
    [] n = 2 -> CurrencyLedAt(t, p)
    [] n = 3 -> CurrencyTrailedAt(t, p)
    [] n = 4 -> BareTotalAt(t, p)

\* the places at or after p where pattern n matches
MatchPlaces(n, t, p) == {q \in p..Len(t) : IsMatch(AmountPatternAt(n, t, q))}

\* the match of pattern n at the least of the places, if there is one
MatchAtFirst(n, t, places) ==
  IF places = {} THEN NoMatch
  ELSE AmountPatternAt(n, t, CHOOSE q \in places : \A r \in places : q <= r)

\* RegExp exec: the leftmost match of pattern n at or after p
SearchFrom(n, t, p) == MatchAtFirst(n, t, MatchPlaces(n, t, p))

RECURSIVE MatchAll(_, _, _)
\* the match m and the matches after it
MatchAndRest(n, t, m) == IF IsMatch(m) THEN <<m>> \o MatchAll(n, t, m.to) ELSE <<>>

\* every match of a g pattern, each search starting where the last match ended
MatchAll(n, t, p) == MatchAndRest(n, t, SearchFrom(n, t, p))

Whole(t, m) == SubSeq(t, m.from, m.to - 1)

Group1(t, m) == SubSeq(t, m.gfrom, m.gto - 1)

\* the array a g pattern gives: the whole matches, capture groups not included
WholeMatches(t, all) == [k \in 1..Len(all) |-> Whole(t, all[k])]

\* the array a pattern without g gives: [whole match, group 1], or null
WholeAndGroup(t, m) == IF IsMatch(m) THEN <<Whole(t, m), Group1(t, m)>> ELSE <<>>

\* text.match(pattern): null is the empty sequence here (no array of a
\* match is empty); index k of the JavaScript array is index k + 1 here
StringMatch(n, t) ==
  IF IsGlobal(n)
  THEN WholeMatches(t, MatchAll(n, t, 1))
  ELSE WholeAndGroup(t, SearchFrom(n, t, 1))

\* matches[1] || matches[0]
Candidate(matches) ==
  IF Len(matches) >= 2 /\ matches[2] # <<>> THEN matches[2] ELSE matches[1]

\* .replace(/[^\d.,]/g, '').replace(/,/g, '')
CleanAmount(s) ==
  SelectSeq(SelectSeq(s, LAMBDA c : IsDigit(c) \/ c = "." \/ c = ","), LAMBDA c : c # ",")

RECURSIVE ToNat(_)
\* the value of a run of digits
ToNat(ds) ==
  IF ds = <<>> THEN 0
  ELSE 10 * ToNat(SubSeq(ds, 1, Len(ds) - 1)) + DigitVal(ds[Len(ds)])

RECURSIVE StripZeros(_)
\* fraction digits without the trailing zeros
StripZeros(ds) ==
  IF ds # <<>> /\ ds[Len(ds)] = "0"
  THEN StripZeros(SubSeq(ds, 1, Len(ds) - 1))
  ELSE ds

\* the number with these digits before and after the point; NaN with none
NumberOfDigits(intDigits, fracDigits) ==
  IF intDigits = <<>> /\ fracDigits = <<>> THEN NaN
  ELSE Number(ToNat(intDigits), StripZeros(fracDigits))

\* the digits after a point at i, none without a point there
FractionDigits(s, i) ==
  IF At(s, i) = "." THEN SubSeq(s, i + 1, DigitsEnd(s, i + 1) - 1) ELSE <<>>

\* the number whose integer digits end before i
FloatUpTo(s, i) == NumberOfDigits(SubSeq(s, 1, i - 1), FractionDigits(s, i))

\* parseFloat of a string of digits and points (all CleanAmount leaves): the
\* longest prefix that is a decimal literal, digits [. digits] or . digits;
\* NaN when there is none
ParseFloat(s) == FloatUpTo(s, DigitsEnd(s, 1))

\* the upper bound of the accepted range
MaxAmount == 100000

\* Accepted without the upper bound of the range
AcceptedNoUpperBound(numAmount) == Truthy(numAmount) /\ GreaterThanZero(numAmount)

\* numAmount && numAmount > 0 && numAmount < 100000
Accepted(numAmount) ==
  Truthy(numAmount) /\ GreaterThanZero(numAmount) /\ LessThan(numAmount, MaxAmount)

\* parseFloat of the cleaned candidate of a match array
NumAmountOf(matches) == ParseFloat(CleanAmount(Candidate(matches)))

\* AmountStep without the break: a later pattern's accepted number replaces
\* an earlier one
AmountStepNoBreak(matches, later) ==
  IF ~IsNull(later) THEN later
  ELSE IF matches # <<>> /\ Accepted(NumAmountOf(matches)) THEN NumAmountOf(matches)
  ELSE later

\* the body of the loop for one pattern: the number when there is a match
\* and the number is accepted (the break), else the patterns after it
AmountStep(matches, later) ==
  IF matches # <<>> /\ Accepted(NumAmountOf(matches)) THEN NumAmountOf(matches) ELSE later

RECURSIVE AmountFrom(_, _)
\* the loop over amountPatterns from pattern n on; null when none accepted
AmountFrom(n, t) ==
  IF n > NumAmountPatterns THEN Null
  ELSE AmountStep(StringMatch(n, t), AmountFrom(n + 1, t))

ExtractAmount(t) == AmountFrom(1, t)

-----------------------------------------------------------------------------
(* Lines, merchant and items of parseReceiptText *)

\* the index of the first sep of t at or after i, Len(t) + 1 when none
RECURSIVE IndexOf(_, _, _)
IndexOf(t, sep, i) ==
  IF i > Len(t) \/ t[i] = sep THEN i ELSE IndexOf(t, sep, i + 1)

RECURSIVE SplitFrom(_, _, _)
\* the piece that ends before k and the pieces after it
PieceAndRest(t, sep, i, k) ==
  IF k > Len(t) THEN <<SubSeq(t, i, Len(t))>>
  ELSE <<SubSeq(t, i, k - 1)>> \o SplitFrom(t, sep, k + 1)

\* the pieces of t from index i on
SplitFrom(t, sep, i) == PieceAndRest(t, sep, i, IndexOf(t, sep, i))

\* String.prototype.split on the one-character separator sep
Split(t, sep) == SplitFrom(t, sep, 1)

RECURSIVE TrimStart(_)
TrimStart(s) == IF s # <<>> /\ IsSpace(s[1]) THEN TrimStart(Tail(s)) ELSE s

RECURSIVE TrimEnd(_)
TrimEnd(s) ==
  IF s # <<>> /\ IsSpace(s[Len(s)]) THEN TrimEnd(SubSeq(s, 1, Len(s) - 1)) ELSE s

\* String.prototype.trim
Trim(s) == TrimEnd(TrimStart(s))

\* .map(line => line.trim())
TrimAll(raw) == [k \in 1..Len(raw) |-> Trim(raw[k])]

\* text.split('\n').map(line => line.trim()).filter(line => line.length > 0)
LinesOf(t) == SelectSeq(TrimAll(Split(t, NL)), LAMBDA line : Len(line) > 0)

\* String.prototype.includes for a non-empty w
Includes(s, w) ==
  \E i \in 1..(Len(s) - Len(w) + 1) : s[i] = w[1] /\ SubSeq(s, i, i + Len(w) - 1) = w

HasDigit(s) == \E k \in 1..Len(s) : IsDigit(s[k])

TopLineCount == 5

MerchantMinLen == 3

MerchantMaxLen == 50

\* a string value
String(s) == [kind |-> "string", str |-> s]

\* the condition of the merchant loop on one line
IsMerchantLine(line) ==
  /\ Len(line) > MerchantMinLen
  /\ Len(line) < MerchantMaxLen
  /\ ~HasDigit(line)
  /\ ~Includes(ToLowerCase(line), <<"r", "e", "c", "e", "i", "p", "t">>)
  /\ ~Includes(ToLowerCase(line), <<"b", "i", "l", "l">>)

RECURSIVE MerchantFrom(_, _)
\* the loop over topLines from line k on: the first line that qualifies
\* (the break), else null
MerchantFrom(topLines, k) ==
  IF k > Len(topLines) THEN Null
  ELSE IF IsMerchantLine(topLines[k]) THEN String(topLines[k])
  ELSE MerchantFrom(topLines, k + 1)

\* ExtractMerchant without the slice: every line is searched
ExtractMerchantAllLines(lines) == MerchantFrom(lines, 1)

\* lines.slice(0, 5) and the loop over it
ExtractMerchant(lines) == MerchantFrom(SubSeq(lines, 1, Min(Len(lines), TopLineCount)), 1)

\* \d+(?:\.\d{2})? from i
PriceEnd(t, i) == IF IsDigit(At(t, i)) THEN FractionEnd(t, DigitsEnd(t, i)) ELSE 0

\* \s*(?:rs\.?|₹) after a price that ends at n
PriceThenMarker(t, n) == n # 0 /\ MarkerEnd(t, SkipSpaces(t, n), TRUE) # 0

\* \s*(\d+(?:\.\d{2})?) after a marker that ends at m
MarkerThenPrice(t, m) == m # 0 /\ IsDigit(At(t, SkipSpaces(t, m)))

\* /(\d+(?:\.\d{2})?)\s*(?:rs\.?|₹)|(?:rs\.?|₹)\s*(\d+(?:\.\d{2})?)/i at p
ItemPriceAt(t, p) ==
  \/ PriceThenMarker(t, PriceEnd(t, p))
  \/ MarkerThenPrice(t, MarkerEnd(t, p, TRUE))

\* line.match(...) is not null
HasItemPrice(line) == \E p \in 1..Len(line) : ItemPriceAt(line, p)

\* a character of the class [\d\s₹rs\.-] under the i flag
IsItemNoise(c) ==
  IsDigit(c) \/ IsSpace(c) \/ c = Rupee \/ Lower(c) \in {"r", "s"} \/ c = "." \/ c = "-"

\* line.replace(/[\d\s₹rs\.-]/gi, '').trim()
ItemName(line) == Trim(SelectSeq(line, LAMBDA c : ~IsItemNoise(c)))

ItemMinLen == 2

\* the body of the item loop: items.push(itemName) under the two conditions
PushItem(hasPrice, itemName, later) ==
  IF hasPrice /\ Len(itemName) > ItemMinLen THEN <<itemName>> \o later ELSE later

RECURSIVE ItemsFrom(_, _)
\* the loop over the lines from line k on
ItemsFrom(lines, k) ==
  IF k > Len(lines) THEN <<>>
  ELSE PushItem(HasItemPrice(lines[k]), ItemName(lines[k]), ItemsFrom(lines, k + 1))

ExtractItems(lines) == ItemsFrom(lines, 1)

-----------------------------------------------------------------------------
(* datePatterns and new Date(dateStr) *)

IsDateSep(c) == c = "-" \/ c = "/"

\* \d{1,2}[-\/] from i: two digits are tried first; with one digit before
\* the separator there is no second reading
DayPartEnd(t, i) ==
  IF IsDigit(At(t, i)) /\ IsDigit(At(t, i + 1)) /\ IsDateSep(At(t, i + 2)) THEN i + 3
  ELSE IF IsDigit(At(t, i)) /\ IsDateSep(At(t, i + 1)) THEN i + 2
  ELSE 0

\* a run of digits from i to e as \d{2,4} takes it
YearRun(i, e) == IF e - i < 2 THEN 0 ELSE IF e - i > 4 THEN i + 4 ELSE e

\* \d{2,4} from i
YearEnd(t, i) == IF i = 0 THEN 0 ELSE YearRun(i, DigitsEnd(t, i))

\* \d{1,2}[-\/]\d{1,2}[-\/]\d{2,4} from i
NumericDateEnd(t, i) == YearEnd(t, DayPartEnd(t, DayPartEnd(t, i)))

\* (?:jan|feb|mar|apr|may|jun|jul|aug|sep|oct|nov|dec)
MonthNames ==
  << <<"j", "a", "n">>, <<"f", "e", "b">>, <<"m", "a", "r">>, <<"a", "p", "r">>,
     <<"m", "a", "y">>, <<"j", "u", "n">>, <<"j", "u", "l">>, <<"a", "u", "g">>,
     <<"s", "e", "p">>, <<"o", "c", "t">>, <<"n", "o", "v">>, <<"d", "e", "c">> >>

\* the month name, then \s+, from i: the index after the white space
MonthSpaceEnd(t, i) ==
  IF i # 0 /\ IsSpace(At(t, i + 3)) /\ \E k \in 1..Len(MonthNames) : WordEnd(t, i, MonthNames[k], TRUE) # 0
  THEN SkipSpaces(t, i + 3)
  ELSE 0

\* \d{1,2}\s+ from i
DaySpaceEnd(t, i) ==
  IF IsDigit(At(t, i)) /\ IsDigit(At(t, i + 1)) /\ IsSpace(At(t, i + 2)) THEN SkipSpaces(t, i + 2)
  ELSE IF IsDigit(At(t, i)) /\ IsSpace(At(t, i + 1)) THEN SkipSpaces(t, i + 1)
  ELSE 0

\* a match from p to e that is all capture group 1
WholeCapture(p, e) == IF e = 0 THEN NoMatch ELSE MatchOf(p, e, p, e)

\* /(\d{1,2}[-\/]\d{1,2}[-\/]\d{2,4})/ at p
NumericDateAt(t, p) == WholeCapture(p, NumericDateEnd(t, p))

\* /(\d{1,2}\s+(?:jan|...|dec)\s+\d{2,4})/i at p
NamedDateAt(t, p) == WholeCapture(p, YearEnd(t, MonthSpaceEnd(t, DaySpaceEnd(t, p))))

\* (?:date|dt) from p
DateLabelEnd(t, p) ==
  IF WordEnd(t, p, <<"d", "a", "t", "e">>, TRUE) # 0 THEN p + 4
  ELSE IF WordEnd(t, p, <<"d", "t">>, TRUE) # 0 THEN p + 2
  ELSE 0

\* the capture group of the third pattern, at a
LabeledDateGroup(t, p, a) == Capture(p, a, IF a = 0 THEN 0 ELSE NumericDateEnd(t, a))

\* /(?:date|dt)[:\s]*(\d{1,2}[-\/]\d{1,2}[-\/]\d{2,4})/i at p
LabeledDateAt(t, p) == LabeledDateGroup(t, p, SkipColonSpaces(t, DateLabelEnd(t, p)))

NumDatePatterns == 3

\* datePatterns[n - 1] tried at index p of t
DatePatternAt(n, t, p) ==
  CASE n = 1 -> NumericDateAt(t, p)
    [] n = 2 -> NamedDateAt(t, p)
    [] n = 3 -> LabeledDateAt(t, p)

\* the places at or after p where date pattern n matches
DatePlaces(n, t, p) == {q \in p..Len(t) : IsMatch(DatePatternAt(n, t, q))}

\* the match of date pattern n at the least of the places, if there is one
DateAtFirst(n, t, places) ==
  IF places = {} THEN NoMatch
  ELSE DatePatternAt(n, t, CHOOSE q \in places : \A r \in places : q <= r)

\* text.match(pattern) of a date pattern: the leftmost match at or after p
DateSearchFrom(n, t, p) == DateAtFirst(n, t, DatePlaces(n, t, p))

RECURSIVE NumbersIn(_, _)
\* the values of the runs of digits of s, from index i on
NumbersIn(s, i) ==
  IF i > Len(s) THEN <<>>
  ELSE IF IsDigit(s[i])
       THEN <<ToNat(SubSeq(s, i, DigitsEnd(s, i) - 1))>> \o NumbersIn(s, DigitsEnd(s, i))
       ELSE NumbersIn(s, i + 1)

RECURSIVE MonthIn(_, _)
\* the first month, from month k on, whose name s includes; 0 for none
MonthIn(s, k) ==
  IF k > Len(MonthNames) THEN 0
  ELSE IF Includes(s, MonthNames[k]) THEN k
  ELSE MonthIn(s, k + 1)

IsDay(x) == x >= 1 /\ x <= 31

IsMonth(x) == x >= 1 /\ x <= 12

\* a two-digit year: 0..49 is 2000.., 50..99 is 1950..
FullYear(y) == IF y <= 49 THEN y + 2000 ELSE IF y <= 99 THEN y + 1900 ELSE y

InvalidDate == [kind |-> "InvalidDate"]

DateOf(y, m, d) ==
  IF IsMonth(m) /\ IsDay(d)
  THEN [kind |-> "date", year |-> FullYear(y), month |-> m, day |-> d]
  ELSE InvalidDate

\* the date of the numbers c of a date string and the month it names
DateOfParts(c, named) ==
  IF named = 0
  THEN (IF ~IsDay(c[1]) THEN DateOf(c[1], c[2], c[3]) ELSE DateOf(c[3], c[1], c[2]))
  ELSE (IF ~IsDay(c[1]) THEN DateOf(c[1], named, c[2]) ELSE DateOf(c[2], named, c[1]))

\* new Date(dateStr) for the strings the date patterns capture, none of
\* them an ISO date: Node's fallback parser reads the numbers in order as
\* month, day, year (year, month, day when the first is no day of a month)
\* and, beside a month name, as day, year (year, day likewise); a month
\* outside 1..12 or a day outside 1..31 gives an invalid date
NewDate(dateStr) == DateOfParts(NumbersIn(dateStr, 1), MonthIn(ToLowerCase(dateStr), 1))

\* DateStep that gives up at a match that is no date: the patterns after
\* it are not tried
DateStepNoNextPattern(matched, parsedDate, later) ==
  IF matched THEN (IF parsedDate # InvalidDate THEN parsedDate ELSE Null) ELSE later

\* the body of the loop for one pattern: the parsed date when it is valid
\* (the break), else the patterns after it
DateStep(matched, parsedDate, later) ==
  IF matched /\ parsedDate # InvalidDate THEN parsedDate ELSE later

\* the step for the match m of one pattern
DateOfMatch(t, m, later) == DateStep(IsMatch(m), NewDate(Group1(t, m)), later)

RECURSIVE DateFrom(_, _)
\* the loop over datePatterns from pattern n on; null when none parses
DateFrom(n, t) ==
  IF n > NumDatePatterns THEN Null
  ELSE DateOfMatch(t, DateSearchFrom(n, t, 1), DateFrom(n + 1, t))

ExtractDate(t) == DateFrom(1, t)

\* the object parseReceiptText returns, from the text and its lines
ParsedOf(t, lines) ==
  [ amount |-> ExtractAmount(t),
    merchant |-> ExtractMerchant(lines),
    date |-> ExtractDate(t),
    items |-> ExtractItems(lines),
    rawText |-> t ]

\* parseReceiptText(text)
ParseReceiptText(t) == ParsedOf(t, LinesOf(t))

-----------------------------------------------------------------------------
(* categoryMappings, determineCategory, calculateConfidence *)

\* the categories and their keywords, in the order the object declares them
categoryMappings ==
  <<
     [ category |-> "Food & Dining",
       keywords |-> <<
         <<"r", "e", "s", "t", "a", "u", "r", "a", "n", "t">>,
         <<"c", "a", "f", "e">>,
         <<"f", "o", "o", "d">>,
         <<"p", "i", "z", "z", "a">>,
         <<"b", "u", "r", "g", "e", "r">>,
         <<"h", "o", "t", "e", "l">>,
         <<"d", "h", "a", "b", "a">>,
         <<"c", "a", "n", "t", "e", "e", "n">>,
         <<"m", "c", "d", "o", "n", "a", "l", "d">>,
         <<"k", "f", "c">>,
         <<"d", "o", "m", "i", "n", "o", "s">>,
         <<"p", "i", "z", "z", "a", " ", "h", "u", "t">>,
         <<"s", "u", "b", "w", "a", "y">>,
         <<"c", "a", "f", "e", " ", "c", "o", "f", "f", "e", "e", " ", "d", "a", "y">>,
         <<"s", "t", "a", "r", "b", "u", "c", "k", "s">>,
         <<"c", "h", "a", "i">>,
         <<"t", "e", "a">>,
         <<"s", "w", "i", "g", "g", "y">>,
         <<"z", "o", "m", "a", "t", "o">>,
         <<"u", "b", "e", "r", " ", "e", "a", "t", "s">> >> ],
     [ category |-> "Transportation",
       keywords |-> <<
         <<"u", "b", "e", "r">>,
         <<"o", "l", "a">>,
         <<"t", "a", "x", "i">>,
         <<"a", "u", "t", "o">>,
         <<"b", "u", "s">>,
         <<"m", "e", "t", "r", "o">>,
         <<"r", "a", "i", "l", "w", "a", "y">>,
         <<"p", "e", "t", "r", "o", "l">>,
         <<"d", "i", "e", "s", "e", "l">>,
         <<"f", "u", "e", "l">>,
         <<"g", "a", "s">>,
         <<"s", "t", "a", "t", "i", "o", "n">>,
         <<"t", "r", "a", "n", "s", "p", "o", "r", "t">>,
         <<"p", "a", "r", "k", "i", "n", "g">>,
         <<"t", "o", "l", "l">>,
         <<"r", "a", "p", "i", "d", "o">> >> ],
     [ category |-> "Shopping",
       keywords |-> <<
         <<"m", "a", "l", "l">>,
         <<"s", "t", "o", "r", "e">>,
         <<"s", "h", "o", "p">>,
         <<"m", "a", "r", "k", "e", "t">>,
         <<"b", "a", "z", "a", "a", "r">>,
         <<"a", "m", "a", "z", "o", "n">>,
         <<"f", "l", "i", "p", "k", "a", "r", "t">>,
         <<"m", "y", "n", "t", "r", "a">>,
         <<"c", "l", "o", "t", "h", "i", "n", "g">>,
         <<"f", "a", "s", "h", "i", "o", "n">>,
         <<"s", "h", "o", "e", "s">>,
         <<"e", "l", "e", "c", "t", "r", "o", "n", "i", "c", "s">>,
         <<"m", "o", "b", "i", "l", "e">>,
         <<"l", "a", "p", "t", "o", "p">> >> ],
     [ category |-> "Healthcare",
       keywords |-> <<
         <<"h", "o", "s", "p", "i", "t", "a", "l">>,
         <<"c", "l", "i", "n", "i", "c">>,
         <<"d", "o", "c", "t", "o", "r">>,
         <<"m", "e", "d", "i", "c", "a", "l">>,
         <<"p", "h", "a", "r", "m", "a", "c", "y">>,
         <<"m", "e", "d", "i", "c", "i", "n", "e">>,
         <<"h", "e", "a", "l", "t", "h">>,
         <<"a", "p", "o", "l", "l", "o">>,
         <<"f", "o", "r", "t", "i", "s">>,
         <<"m", "a", "x">>,
         <<"a", "i", "i", "m", "s">>,
         <<"d", "e", "n", "t", "a", "l">> >> ],
     [ category |-> "Utilities",
       keywords |-> <<
         <<"e", "l", "e", "c", "t", "r", "i", "c", "i", "t", "y">>,
         <<"w", "a", "t", "e", "r">>,
         <<"g", "a", "s">>,
         <<"i", "n", "t", "e", "r", "n", "e", "t">>,
         <<"w", "i", "f", "i">>,
         <<"m", "o", "b", "i", "l", "e">>,
         <<"p", "h", "o", "n", "e">>,
         <<"b", "r", "o", "a", "d", "b", "a", "n", "d">>,
         <<"c", "a", "b", "l", "e">>,
         <<"d", "i", "s", "h">>,
         <<"a", "i", "r", "t", "e", "l">>,
         <<"j", "i", "o">>,
         <<"v", "o", "d", "a", "f", "o", "n", "e">>,
         <<"b", "s", "n", "l">> >> ],
     [ category |-> "Entertainment",
       keywords |-> <<
         <<"m", "o", "v", "i", "e">>,
         <<"c", "i", "n", "e", "m", "a">>,
         <<"t", "h", "e", "a", "t", "r", "e">>,
         <<"p", "v", "r">>,
         <<"i", "n", "o", "x">>,
         <<"g", "a", "m", "e">>,
         <<"p", "a", "r", "k">>,
         <<"m", "a", "l", "l">>,
         <<"n", "e", "t", "f", "l", "i", "x">>,
         <<"a", "m", "a", "z", "o", "n", " ", "p", "r", "i", "m", "e">>,
         <<"h", "o", "t", "s", "t", "a", "r">>,
         <<"s", "p", "o", "t", "i", "f", "y">>,
         <<"y", "o", "u", "t", "u", "b", "e">> >> ] >>

\* a fallback category spelled unlike the one of the schema
DefaultCategoryOther == "Other"

DefaultCategory == "Others"

RECURSIVE Join(_, _)
\* Array.prototype.join
Join(strs, sep) ==
  IF strs = <<>> THEN <<>>
  ELSE IF Len(strs) = 1 THEN strs[1]
  ELSE strs[1] \o sep \o Join(Tail(strs), sep)

\* the inner loop: one of the keywords is included in the search text
AnyKeywordIn(searchText, keywords) ==
  \E k \in 1..Len(keywords) : Includes(searchText, ToLowerCase(keywords[k]))

\* the category found later in the table, when there is one
PreferLater(later, here) == IF later # DefaultCategory THEN later ELSE here

RECURSIVE CategoryFromLast(_, _)
\* CategoryFrom with the table read from its end: the last category with a
\* keyword in the search text
CategoryFromLast(searchText, c) ==
  IF c > Len(categoryMappings) THEN DefaultCategory
  ELSE PreferLater(CategoryFromLast(searchText, c + 1),
                   IF AnyKeywordIn(searchText, categoryMappings[c].keywords)
                   THEN categoryMappings[c].category
                   ELSE DefaultCategory)

RECURSIVE CategoryFrom(_, _)
\* the outer loop from entry c of the table on: the first category with a
\* keyword in the search text (the return), else the default
CategoryFrom(searchText, c) ==
  IF c > Len(categoryMappings) THEN DefaultCategory
  ELSE IF AnyKeywordIn(searchText, categoryMappings[c].keywords)
       THEN categoryMappings[c].category
       ELSE CategoryFrom(searchText, c + 1)

\* determineCategory without the toLowerCase of the search text
determineCategoryCaseSensitive(merchant, items) ==
  CategoryFrom(merchant \o <<" ">> \o Join(items, <<" ">>), 1)

\* determineCategory(merchant, items), merchant a string
determineCategory(merchant, items) ==
  CategoryFrom(ToLowerCase(merchant \o <<" ">> \o Join(items, <<" ">>)), 1)

AmountPoints == 40

MerchantPoints == 30

\* the points of a date set to those of a merchant
DatePointsAsMerchant == MerchantPoints

DatePoints == 20

ItemsPoints == 10

MaxConfidence == 100

\* calculateConfidence that grants the points of the items to every receipt
calculateConfidenceItemsAlways(p) ==
  Min( (IF Truthy(p.amount) THEN AmountPoints ELSE 0)
     + (IF ~IsNull(p.merchant) THEN MerchantPoints ELSE 0)
     + (IF ~IsNull(p.date) THEN DatePoints ELSE 0)
     + ItemsPoints,
       MaxConfidence )

\* calculateConfidence(parsed)
calculateConfidence(p) ==
  Min( (IF Truthy(p.amount) THEN AmountPoints ELSE 0)
     + (IF ~IsNull(p.merchant) THEN MerchantPoints ELSE 0)
     + (IF ~IsNull(p.date) THEN DatePoints ELSE 0)
     + (IF Len(p.items) > 0 THEN ItemsPoints ELSE 0),
       MaxConfidence )

-----------------------------------------------------------------------------
(* processReceipt *)

NoTextError == "No text could be extracted from the image"

NoAmountError == "Could not extract amount from receipt"

OcrError == "Failed to extract text from image"

AccessError == "ENOENT: no such file or directory"

\* new Date(): the time of the call
Now == [kind |-> "now"]

\* IsBlank without the trim: only the empty text is blank
IsBlankNoTrim(t) == t = <<>>

\* !extractedText || extractedText.trim().length === 0
IsBlank(t) == t = <<>> \/ Len(Trim(t)) = 0

\* AmountMissing that asks for a merchant as well
AmountOrMerchantMissing(p) == ~Truthy(p.amount) \/ IsNull(p.merchant)

\* !parsed.amount
AmountMissing(p) == ~Truthy(p.amount)

\* FailureResult that returns an empty data object instead of null
FailureResultWithData(message) ==
  [success |-> FALSE, error |-> message, data |-> [kind |-> "object"]]

\* the object the catch block returns
FailureResult(message) == [success |-> FALSE, error |-> message, data |-> Null]

DescriptionItems == 3

\* description || 'Receipt purchase'
OrReceiptPurchase(description) ==
  IF description # <<>> THEN description ELSE <<"R", "e", "c", "e", "i", "p", "t", " ", "p", "u", "r", "c", "h", "a", "s", "e">>

\* DescriptionOf without the slice: every item is listed
DescriptionOfAllItems(p) ==
  (IF ~IsNull(p.merchant) THEN <<"P", "u", "r", "c", "h", "a", "s", "e", " ", "a", "t", " ">> \o p.merchant.str ELSE <<>>)
  \o (IF Len(p.items) > 0 THEN <<" ", "-", " ">> \o Join(p.items, <<",", " ">>) ELSE <<>>)

\* the description after the two if statements
DescriptionOf(p) ==
  (IF ~IsNull(p.merchant) THEN <<"P", "u", "r", "c", "h", "a", "s", "e", " ", "a", "t", " ">> \o p.merchant.str ELSE <<>>)
  \o (IF Len(p.items) > 0
      THEN <<" ", "-", " ">> \o Join(SubSeq(p.items, 1, Min(Len(p.items), DescriptionItems)), <<",", " ">>)
      ELSE <<>>)

\* the object the try block returns
SuccessResult(t, p) ==
  [ success |-> TRUE,
    data |-> [ kind |-> "object",
               amount |-> p.amount,
               category |-> determineCategory(IF ~IsNull(p.merchant) THEN p.merchant.str ELSE <<>>, p.items),
               description |-> OrReceiptPurchase(DescriptionOf(p)),
               date |-> IF ~IsNull(p.date) THEN p.date ELSE Now,
               merchant |-> p.merchant,
               items |-> p.items,
               confidence |-> calculateConfidence(p) ],
    rawData |-> [extractedText |-> t, parsed |-> p] ]

\* processReceipt from the parsed text on: the throw for a missing amount,
\* caught by the catch block, or the return
ResultOfParsed(t, p) ==
  IF AmountMissing(p) THEN FailureResult(NoAmountError) ELSE SuccessResult(t, p)

\* ResultFor without the try: the throw for a blank text reaches the caller
ResultForUncaught(t) ==
  IF IsBlank(t) THEN [thrown |-> NoTextError] ELSE ResultOfParsed(t, ParseReceiptText(t))

\* processReceipt once the text is there: the throw for a blank text, caught
\* by the catch block, then the parse
ResultFor(t) ==
  IF IsBlank(t) THEN FailureResult(NoTextError) ELSE ResultOfParsed(t, ParseReceiptText(t))

-----------------------------------------------------------------------------
(* The texts the OCR engine may return *)

\* the most lines of a text built from ShortLines
MaxLines == 2

\* one-line texts: a label, a currency marker, a number, a trailing marker
LineLabels ==
  { <<>>, <<"T", "o", "t", "a", "l", ":", " ">>, <<"S", "u", "b", "t", "o", "t", "a", "l", ":", " ">>, <<"A", "m", "o", "u", "n", "t">>, <<"T", "e", "a", " ">>, <<"b", "u", "r", "g", "e", "r", "s", " ">> }

LineMarkers ==
  { <<>>, <<"R", "s", ".">>, <<"r", "s", ".">>, <<"R", "s", " ">>, <<"₹">> }

LineNumbers ==
  { <<"1", "2", "0">>, <<"1", ",", "2", "5", "0", ".", "5", "0">>, <<"0">>, <<"2", "0", "0", "0", "0", "0">>, <<"0", ".", "5", "0">>, <<"9", "9", "9", "9", "9", ".", "9", "9">>, <<"1", "0", "0", "0", "0", "0">> }

LineTrailers ==
  { <<>>, <<" ", "r", "s">>, <<"₹">>, <<"R", "s", ".">> }

OneLineTexts ==
  {l \o m \o n \o r : l \in LineLabels, m \in LineMarkers, n \in LineNumbers, r \in LineTrailers}

\* the lines of the texts of several lines
ShortLines ==
  { <<"S", "u", "b", "t", "o", "t", "a", "l", ":", " ", "R", "s", ".", "1", "0", "0">>, <<"T", "o", "t", "a", "l", ":", " ", "R", "s", ".", "1", "2", "0">>, <<"T", "o", "t", "a", "l", ":", " ", "R", "s", ".", "1", "0", "0">>, <<"T", "o", "t", "a", "l", ":", " ", "5", "0", " ", "r", "s">>,
    <<"T", "o", "t", "a", "l", ":", " ", "₹", "2", "0", "0", "0", "0", "0">>, <<"S", "u", "b", "t", "o", "t", "a", "l", ":", " ", "₹", "7", "0">>, <<"R", "s", ".", "1", "2", "0">>, <<"r", "s", ".", "1", "2", "0">>,
    <<"₹", "7", "0">>, <<"₹", "5", "0", "0">>, <<"5", "0", " ", "r", "s">>, <<"₹", "2", "0", "0", "0", "0", "0">> }

RECURSIVE TextsOfLines(_)
\* the texts of exactly k lines of ShortLines, joined by line feeds
TextsOfLines(k) ==
  IF k = 1 THEN ShortLines
  ELSE {t \o <<NL>> \o l : t \in TextsOfLines(k - 1), l \in ShortLines}

ManyLineTexts == UNION {TextsOfLines(k) : k \in 2..MaxLines}

\* receipts: a heading, an item line, a date line and a total, each optional
Headings ==
  { <<>>, <<"C", "A", "F", "E", " ", "C", "O", "F", "F", "E", "E", " ", "D", "A", "Y">>, <<"C", "a", "s", "h", " ", "R", "e", "c", "e", "i", "p", "t">>, <<"U", "b", "e", "r", " ", "E", "a", "t", "s">>, <<"M", "e", "t", "r", "o", " ", "S", "t", "a", "t", "i", "o", "n">>,
    <<"B", "i", "g", " ", "B", "a", "z", "a", "a", "r">>, <<"A", "i", "r", "t", "e", "l", " ", "B", "r", "o", "a", "d", "b", "a", "n", "d">>, <<"P", "V", "R", " ", "C", "i", "n", "e", "m", "a", "s">> }

ItemLines ==
  { <<>>, <<"C", "a", "p", "p", "u", "c", "c", "i", "n", "o", " ", " ", "R", "s", ".", "1", "2", "0">>, <<"T", "e", "a", " ", "₹", "2", "0">>, <<"B", "u", "r", "g", "e", "r", " ", "₹", "5", "0">>, <<"R", "u", "s", "k", " ", "₹", "1", "0">> }

DateLines ==
  { <<>>, <<"D", "a", "t", "e", ":", " ", "1", "2", "/", "0", "5", "/", "2", "0", "2", "4">>, <<"3", "2", "/", "1", "3", "/", "2", "0", "2", "4">>, <<"3", "2", "/", "1", "3", "/", "2", "0", "2", "4", " ", "d", "t", ":", " ", "1", "2", "/", "0", "5", "/", "2", "0", "2", "4">>,
    <<"1", "5", " ", "J", "a", "n", " ", "2", "0", "2", "4">> }

TotalLines ==
  { <<>>, <<"T", "o", "t", "a", "l", ":", " ", "R", "s", ".", "1", "2", "0">>, <<"T", "o", "t", "a", "l", ":", " ", "R", "s", ".", " ", "4", "5", "0", ".", "0", "0">>, <<"₹", "5", "0", "0">>, <<"n", "o", " ", "n", "u", "m", "b", "e", "r", "s">> }

\* the lines present, one per line
Stack(h, i, d, a) ==
  Join(SelectSeq(<<h, i, d, a>>, LAMBDA line : line # <<>>), <<NL>>)

ReceiptTexts ==
  {Stack(h, i, d, a) : h \in Headings, i \in ItemLines, d \in DateLines, a \in TotalLines}

\* the most lines before the heading of a long receipt
MaxPreamble == 6

\* the most item lines of a long receipt
MaxItemLines == 5

\* lines that stand before the heading: none of them can be a merchant
PreambleLines ==
  << <<"C", "a", "s", "h", " ", "R", "e", "c", "e", "i", "p", "t">>, <<"T", "e", "l", " ", "1", "2", "3", "4", "5">>, <<" ", " ", " ">>, <<"t", "a", "x", " ", "B", "I", "L", "L">>, <<"a", "b">>, <<"G", "S", "T", " ", "B", "i", "l", "l", " ", "N", "o">>,
     <<"N", "o", ".", " ", "4", "2">> >>

\* item lines, one of them twice
PricedLines ==
  << <<"T", "e", "a", " ", "₹", "2", "0">>, <<"S", "a", "m", "o", "s", "a", " ", "-", " ", "2", " ", "R", "s", ".", "3", "0">>, <<"T", "e", "a", " ", "₹", "2", "0">>, <<"B", "u", "r", "g", "e", "r", " ", "5", "0", " ", "r", "s">>, <<"C", "o", "l", "a", " ", "₹", "4", "0">> >>

LongHeadings ==
  { <<>>, <<" ", " ", "C", "A", "F", "E", " ", "C", "O", "F", "F", "E", "E", " ", "D", "A", "Y", " ">>, <<"M", "a", "l", "l", " ", "S", "h", "o", "p", " ", "P", "i", "z", "z", "a">>, <<"C", "i", "t", "y", " ", "H", "o", "s", "p", "i", "t", "a", "l">>, <<"C", "o", "r", "n", "e", "r", " ", "H", "o", "u", "s", "e">> }

LongTotals ==
  { <<>>, <<"T", "o", "t", "a", "l", ":", " ", "R", "s", ".", "1", "2", "0">> }

\* the first k lines of the cycle through lines
Cycle(lines, k) == [i \in 1..k |-> lines[((i - 1) % Len(lines)) + 1]]

\* k preamble lines, a heading, m item lines and a total
LongReceipt(k, h, m, a) ==
  Join(SelectSeq(Cycle(PreambleLines, k) \o <<h>> \o Cycle(PricedLines, m) \o <<a>>,
                 LAMBDA line : line # <<>>),
       <<NL>>)

LongReceiptTexts ==
  {LongReceipt(k, h, m, a) : k \in 0..MaxPreamble, h \in LongHeadings,
                             m \in 0..MaxItemLines, a \in LongTotals}

\* texts of white space only, and the empty text
BlankTexts ==
  { <<>>, <<" ">>, <<" ", " ", " ">>, <<" ", "\n", "\t", " ">> }

OcrTexts ==
  OneLineTexts \cup ManyLineTexts \cup ReceiptTexts \cup LongReceiptTexts \cup BlankTexts

-----------------------------------------------------------------------------
(* processReceipt as a state machine: the two awaits, then the rest *)

\* the module-level categoryMappings as the calls find it: its categories
\* in their order, each with the number of its keywords
TableOf(mappings) ==
  [k \in 1..Len(mappings) |->
     [category |-> mappings[k].category, keywords |-> Len(mappings[k].keywords)]]

\* the calls of processReceipt that may be in flight together
CallIds == {1, 2}

\* a call that has not been made
NoCall == [pc |-> "idle"]

Init ==
  /\ pc = "access"
  /\ extractedText = Null
  /\ result = Null
  /\ calls = [c \in CallIds |-> NoCall]
  /\ table = TableOf(categoryMappings)
  /\ clock = 0
  /\ files = {}
  /\ transactions = <<>>
  /\ response = Null
  /\ nextId = 1

\* await fs.access(imagePath) resolves
AccessOk ==
  /\ pc = "access"
  /\ pc' = "ocr"
  /\ UNCHANGED <<extractedText, result>>
  /\ UNCHANGED <<callVars, serverVars>>

\* await fs.access(imagePath) rejects: the catch block returns
AccessFails ==
  /\ pc = "access"
  /\ pc' = "done"
  /\ result' = FailureResult(AccessError)
  /\ UNCHANGED extractedText
  /\ UNCHANGED <<callVars, serverVars>>

\* extractTextFromImage resolves with the recognized text
ExtractTextFromImage ==
  /\ pc = "ocr"
  /\ \E t \in OcrTexts : extractedText' = String(t)
  /\ pc' = "parse"
  /\ UNCHANGED result
  /\ UNCHANGED <<callVars, serverVars>>

\* extractTextFromImage throws: the catch block returns
ExtractTextFails ==
  /\ pc = "ocr"
  /\ pc' = "done"
  /\ result' = FailureResult(OcrError)
  /\ UNCHANGED extractedText
  /\ UNCHANGED <<callVars, serverVars>>

\* the rest of processReceipt: the check of the text, the parse, the check
\* of the amount and the return
ParseAndReturn ==
  /\ pc = "parse"
  /\ pc' = "done"
  /\ result' = ResultFor(extractedText.str)
  /\ UNCHANGED extractedText
  /\ UNCHANGED <<callVars, serverVars>>

Next ==
  \/ AccessOk
  \/ AccessFails
  \/ ExtractTextFromImage
  \/ ExtractTextFails
  \/ ParseAndReturn

Spec == Init /\ [][Next]_vars

-----------------------------------------------------------------------------
(* several calls of processReceipt in flight: a call gives way to the
   others only at its two awaits, and everything after the second await,
   parseReceiptText included, runs without interruption *)

MaxClock == 8

\* the texts the recognizer hands to the calls in flight
CallTexts ==
  { <<"C", "A", "F", "E", " ", "C", "O", "F", "F", "E", "E", " ", "D", "A", "Y", "\n", "T", "e", "a", " ", "₹", "2", "0", "\n", "T", "o", "t", "a", "l", ":", " ", "R", "s", ".", "1", "2", "0">>, <<"U", "b", "e", "r", " ", "E", "a", "t", "s", "\n", "D", "a", "t", "e", ":", " ", "1", "2", "/", "0", "5", "/", "2", "0", "2", "4", "\n", "₹", "5", "0", "0">>,
    <<"₹", "5", "0", "0", "\n", "₹", "7", "0">>, <<"n", "o", " ", "n", "u", "m", "b", "e", "r", "s">>, <<" ">> }

\* the place of the next search of a pattern literal after text.match: the
\* literals are made anew in every parseReceiptText, and match starts a
\* global pattern at 0 and leaves it at 0
LastIndexAfterMatch(n) == 0

\* the category table that only consumes what it has looked at
TableConsumed(tbl) == Tail(tbl)

\* categoryMappings after determineCategory: Object.entries and some only read
TableAfter(tbl) == tbl

\* new Date() at the time of the return, where the receipt gave no date
StampedData(data, time) ==
  IF data.date = Now THEN [data EXCEPT !.date = [kind |-> "now", at |-> time]] ELSE data

StampedResult(r, time) ==
  IF r.success THEN [r EXCEPT !.data = StampedData(r.data, time)] ELSE r

\* processReceipt(imagePath) is called
Invoke(c) ==
  /\ calls[c].pc = "idle"
  /\ clock < MaxClock
  /\ calls' = [calls EXCEPT ![c] = [pc |-> "access", invokedAt |-> clock]]
  /\ clock' = clock + 1
  /\ UNCHANGED <<table, ocrVars, serverVars>>

\* await fs.access(imagePath) resolves
CallAccessOk(c) ==
  /\ calls[c].pc = "access"
  /\ clock < MaxClock
  /\ calls' = [calls EXCEPT ![c].pc = "ocr"]
  /\ clock' = clock + 1
  /\ UNCHANGED <<table, ocrVars, serverVars>>

\* await fs.access(imagePath) rejects: the catch block returns
CallAccessFails(c) ==
  /\ calls[c].pc = "access"
  /\ clock < MaxClock
  /\ calls' = [calls EXCEPT ![c] = [pc |-> "done", invokedAt |-> calls[c].invokedAt,
                                    returnedAt |-> clock, text |-> Null,
                                    lastIndex |-> <<>>,
                                    result |-> FailureResult(AccessError)]]
  /\ clock' = clock + 1
  /\ UNCHANGED <<table, ocrVars, serverVars>>

\* extractTextFromImage resolves with the recognized text
CallExtractText(c) ==
  /\ calls[c].pc = "ocr"
  /\ clock < MaxClock
  /\ \E t \in CallTexts :
       calls' = [calls EXCEPT ![c] = [pc |-> "parse", invokedAt |-> calls[c].invokedAt,
                                      text |-> String(t)]]
  /\ clock' = clock + 1
  /\ UNCHANGED <<table, ocrVars, serverVars>>

\* extractTextFromImage throws: the catch block returns
CallExtractFails(c) ==
  /\ calls[c].pc = "ocr"
  /\ clock < MaxClock
  /\ calls' = [calls EXCEPT ![c] = [pc |-> "done", invokedAt |-> calls[c].invokedAt,
                                    returnedAt |-> clock, text |-> Null,
                                    lastIndex |-> <<>>,
                                    result |-> FailureResult(OcrError)]]
  /\ clock' = clock + 1
  /\ UNCHANGED <<table, ocrVars, serverVars>>

\* the rest of processReceipt, from the check of the text to the return
CallParseAndReturn(c) ==
  /\ calls[c].pc = "parse"
  /\ clock < MaxClock
  /\ calls' = [calls EXCEPT ![c] = [pc |-> "done", invokedAt |-> calls[c].invokedAt,
                                    returnedAt |-> clock, text |-> calls[c].text,
                                    lastIndex |-> [n \in 1..NumAmountPatterns |-> LastIndexAfterMatch(n)],
                                    result |-> StampedResult(ResultFor(calls[c].text.str), clock)]]
  /\ table' = TableAfter(table)
  /\ clock' = clock + 1
  /\ UNCHANGED <<ocrVars, serverVars>>

ParallelNext ==
  \E c \in CallIds :
    \/ Invoke(c)
    \/ CallAccessOk(c)
    \/ CallAccessFails(c)
    \/ CallExtractText(c)
    \/ CallExtractFails(c)
    \/ CallParseAndReturn(c)

ParallelSpec == Init /\ [][ParallelNext]_vars

-----------------------------------------------------------------------------
(* the server: the receipt handlers of the controller and of the receipts
   router, over the stored files and the Transaction collection *)

MaxReceipts == 2

Users == {"u1", "u2"}

\* the names multer gives to uploaded files, and the receipt ids of requests
FileNames == {"r1.jpg", "r2.jpg"}

\* path.join(__dirname, '../../uploads'), the storage of the receipts router
UploadsDir == "uploads"

\* 'uploads/receipts', the storage of the controller
ReceiptsDir == "uploads/receipts"

FilePath(dir, name) == [kind |-> "path", dir |-> dir, name |-> name]

\* the value of a property an object does not have
Undefined == [kind |-> "undefined"]

\* obj.key
Get(obj, key) == IF key \in DOMAIN obj THEN obj[key] ELSE Undefined

\* what the recognizer reads from the uploaded files
UploadTexts == { <<"T", "o", "t", "a", "l", ":", " ", "R", "s", ".", "1", "2", "0">>, <<"n", "o", " ", "n", "u", "m", "b", "e", "r", "s">> }

\* the values a call of processReceipt resolves with
ProcessReceiptResults ==
  {FailureResult(OcrError)} \cup {ResultFor(t) : t \in UploadTexts}

\* the documents of a user linked to a receipt, by place in the collection
LinkedTo(txs, u, receiptId) ==
  {i \in 1..Len(txs) : txs[i].userId = u /\ txs[i].receiptId = receiptId}

\* the first of some places
FirstOf(places) == CHOOSE i \in places : \A j \in places : i <= j

\* the collection without the document at place i
Without(txs, i) == SubSeq(txs, 1, i - 1) \o SubSeq(txs, i + 1, Len(txs))

\* fs.unlink(filePath), a missing file being ignored
Unlink(stored, path) == stored \ {path}

\* new Transaction({...}) of the receipt handlers, saved with the next _id
ReceiptTransaction(id, u, amount, receiptId, receiptUrl) ==
  [ id |-> id, userId |-> u, type |-> "expense", amount |-> amount, date |-> 1,
    receiptId |-> receiptId, receiptUrl |-> receiptUrl, isFromReceipt |-> TRUE,
    createdAt |-> id ]

\* uploadReceipt of the controller, multer having stored the file: a failed
\* processing cleans the file up and answers 400
uploadReceipt(u, name, ocrResult) ==
  /\ FilePath(ReceiptsDir, name) \notin files
  /\ IF ~ocrResult.success
       THEN /\ files' = Unlink(files \cup {FilePath(ReceiptsDir, name)}, FilePath(ReceiptsDir, name))
            /\ response' = [ request |-> [handler |-> "uploadReceipt", userId |-> u,
                                          file |-> FilePath(ReceiptsDir, name)],
                             status |-> 400, success |-> FALSE,
                             message |-> ocrResult.error ]
       ELSE /\ files' = files \cup {FilePath(ReceiptsDir, name)}
            /\ response' = [ request |-> [handler |-> "uploadReceipt", userId |-> u,
                                          file |-> FilePath(ReceiptsDir, name)],
                             status |-> 200, success |-> TRUE,
                             receiptUrl |-> FilePath(ReceiptsDir, name),
                             amount |-> ocrResult.data.amount ]
  /\ UNCHANGED <<transactions, nextId, ocrVars, callVars>>

\* createTransactionFromReceipt of the controller: receiptId and receiptUrl
\* are the ones of the request body
createTransactionFromReceipt(u, receiptId, amount, receiptUrl) ==
  /\ nextId <= MaxReceipts
  /\ IF amount = 0
       THEN /\ response' = [ request |-> [handler |-> "createTransactionFromReceipt", userId |-> u],
                             status |-> 400, success |-> FALSE ]
            /\ UNCHANGED <<transactions, nextId>>
       ELSE /\ transactions' = Append(transactions,
                                 ReceiptTransaction(nextId, u, amount, receiptId, receiptUrl))
            /\ nextId' = nextId + 1
            /\ response' = [ request |-> [handler |-> "createTransactionFromReceipt", userId |-> u],
                             status |-> 201, success |-> TRUE, transaction |-> nextId ]
  /\ UNCHANGED <<files, ocrVars, callVars>>

\* deleteReceipt of the controller
deleteReceipt(u, receiptId) ==
  /\ UNCHANGED <<ocrVars, callVars>>
  /\ IF LinkedTo(transactions, u, receiptId) = {}
       THEN /\ response' = [ request |-> [handler |-> "deleteReceipt", userId |-> u,
                                          receiptId |-> receiptId],
                             status |-> 404, success |-> FALSE ]
            /\ UNCHANGED <<files, transactions, nextId>>
       ELSE /\ transactions' = Without(transactions, FirstOf(LinkedTo(transactions, u, receiptId)))
            /\ files' = IF IsNull(transactions[FirstOf(LinkedTo(transactions, u, receiptId))].receiptUrl)
                          THEN files
                          ELSE Unlink(files, transactions[FirstOf(LinkedTo(transactions, u, receiptId))].receiptUrl)
            /\ response' = [ request |-> [handler |-> "deleteReceipt", userId |-> u,
                                          receiptId |-> receiptId],
                             status |-> 200, success |-> TRUE ]
            /\ UNCHANGED nextId

\* router.post('/upload'), multer having stored the file: the amount is
\* read from the value processReceipt resolved with
PostUpload(u, name, extractedData) ==
  /\ UNCHANGED <<ocrVars, callVars>>
  /\ FilePath(UploadsDir, name) \notin files
  /\ files' = files \cup {FilePath(UploadsDir, name)}
  /\ IF Truthy(Get(extractedData, "amount")) /\ GreaterThanZero(Get(extractedData, "amount"))
       THEN /\ nextId <= MaxReceipts
            /\ transactions' = Append(transactions,
                                 ReceiptTransaction(nextId, u, Get(extractedData, "amount"),
                                                    name, FilePath(UploadsDir, name)))
            /\ nextId' = nextId + 1
            /\ response' = [ request |-> [handler |-> "POST /upload", userId |-> u,
                                          file |-> FilePath(UploadsDir, name)],
                             status |-> 200, success |-> TRUE,
                             extractedData |-> extractedData, transaction |-> nextId,
                             fileName |-> name ]
       ELSE /\ response' = [ request |-> [handler |-> "POST /upload", userId |-> u,
                                          file |-> FilePath(UploadsDir, name)],
                             status |-> 200, success |-> TRUE,
                             extractedData |-> extractedData, transaction |-> Null,
                             fileName |-> name ]
            /\ UNCHANGED <<transactions, nextId>>

\* router.delete('/:filename'): the transaction of the requester, if any,
\* then the file
DeleteFilename(u, filename) ==
  /\ transactions' = IF LinkedTo(transactions, u, filename) = {}
                       THEN transactions
                       ELSE Without(transactions, FirstOf(LinkedTo(transactions, u, filename)))
  /\ files' = Unlink(files, FilePath(UploadsDir, filename))
  /\ response' = [ request |-> [handler |-> "DELETE /:filename", userId |-> u,
                                filename |-> filename],
                   status |-> 200, success |-> TRUE,
                   deletedTransaction |->
                     IF LinkedTo(transactions, u, filename) = {} THEN Null
                     ELSE transactions[FirstOf(LinkedTo(transactions, u, filename))].id ]
  /\ UNCHANGED <<nextId, ocrVars, callVars>>

\* the bodies of the requests that make a transaction of a receipt
ReceiptBodies ==
  {[receiptId |-> f, amount |-> 120, receiptUrl |-> FilePath(ReceiptsDir, f)] : f \in FileNames}
    \cup {[receiptId |-> "r1.jpg", amount |-> 120, receiptUrl |-> Null],
          [receiptId |-> "r1.jpg", amount |-> 0, receiptUrl |-> Null]}

ReceiptNext ==
  \E u \in Users :
    \/ \E name \in FileNames, ocrResult \in ProcessReceiptResults : uploadReceipt(u, name, ocrResult)
    \/ \E b \in ReceiptBodies : createTransactionFromReceipt(u, b.receiptId, b.amount, b.receiptUrl)
    \/ \E receiptId \in FileNames : deleteReceipt(u, receiptId)
    \/ \E name \in FileNames, extractedData \in ProcessReceiptResults : PostUpload(u, name, extractedData)
    \/ \E filename \in FileNames : DeleteFilename(u, filename)

ReceiptSpec == Init /\ [][ReceiptNext]_vars

-----------------------------------------------------------------------------
(* the server: the transaction handlers (the controller and the
   transactions router run the same queries) and the period analytics of
   the router *)

MaxTransactions == 2

MaxPage == 2

MaxLimit == 2

\* the enum of transactionSchema.category
CategoryEnum ==
  { "Food & Dining", "Transportation", "Shopping", "Entertainment", "Healthcare",
    "Utilities", "Education", "Travel", "Salary", "Business", "Investment", "Others" }

\* the days of the analytics period, oldest first
PeriodDays == <<1, 2>>

\* the bodies of the requests that create a transaction
TransactionBodies ==
  { [type |-> "expense", amount |-> 50, date |-> 1],
    [type |-> "expense", amount |-> 70, date |-> 2],
    [type |-> "income", amount |-> 70, date |-> 2] }

\* the bodies of the requests that update a transaction
UpdateBodies ==
  { [type |-> "income", amount |-> 70, date |-> 2],
    [type |-> "expense", amount |-> 50, date |-> 1] }

\* new Transaction({...}) of createTransaction, saved with the next _id;
\* timestamps: true stamps createdAt, later for every later save
NewTransaction(id, u, body) ==
  [ id |-> id, userId |-> u, type |-> body.type, amount |-> body.amount,
    date |-> body.date, receiptId |-> Null, receiptUrl |-> Null,
    isFromReceipt |-> FALSE, createdAt |-> id ]

\* the places of the documents matching { _id: id } alone
PlacesById(txs, u, id) == {i \in 1..Len(txs) : txs[i].id = id}

\* the places of the documents matching { _id: id, userId: req.userId }
PlacesOwned(txs, u, id) == {i \in 1..Len(txs) : txs[i].id = id /\ txs[i].userId = u}

\* the type of a query that names none
NoType == ""

\* the filter of getTransactions: the user, and the type when the query
\* names income or expense
Matching(txs, u, type) ==
  {txs[i] : i \in {j \in 1..Len(txs) :
                     /\ txs[j].userId = u
                     /\ (type # NoType /\ type \in {"income", "expense"}) => txs[j].type = type}}

\* a comes before b under sort({ date: -1, createdAt: -1 })
SortsBefore(a, b) == a.date > b.date \/ (a.date = b.date /\ a.createdAt > b.createdAt)

\* find(filter).sort({ date: -1, createdAt: -1 })
Sorted(docs) ==
  [k \in 1..Cardinality(docs) |->
     CHOOSE t \in docs : Cardinality({x \in docs : SortsBefore(x, t)}) = k - 1]

\* a skip that passes over the asked page as well
SkipWithPage(page, limit) == page * limit

\* (pageNum - 1) * limitNum
Skip(page, limit) == (page - 1) * limit

\* .skip(skip).limit(limitNum)
SkipLimit(sorted, skip, limit) == SubSeq(sorted, skip + 1, Min(skip + limit, Len(sorted)))

\* the transactions of a page
PageOf(txs, u, type, page, limit) ==
  SkipLimit(Sorted(Matching(txs, u, type)), Skip(page, limit), limit)

\* Math.ceil(total / limitNum)
TotalPages(total, limit) == (total + limit - 1) \div limit

\* createTransaction
createTransaction(u, body) ==
  /\ nextId <= MaxTransactions
  /\ transactions' = Append(transactions, NewTransaction(nextId, u, body))
  /\ nextId' = nextId + 1
  /\ response' = [ request |-> [handler |-> "createTransaction", userId |-> u],
                   status |-> 201, success |-> TRUE,
                   transaction |-> NewTransaction(nextId, u, body) ]
  /\ UNCHANGED <<files, ocrVars, callVars>>

\* getTransactions
getTransactions(u, page, limit, type) ==
  /\ response' = [ request |-> [handler |-> "getTransactions", userId |-> u,
                                page |-> page, limit |-> limit, type |-> type],
                   status |-> 200, success |-> TRUE,
                   transactions |-> PageOf(transactions, u, type, page, limit),
                   pagination |->
                     [ currentPage |-> page,
                       totalPages |-> TotalPages(Cardinality(Matching(transactions, u, type)), limit),
                       totalTransactions |-> Cardinality(Matching(transactions, u, type)),
                       hasNext |-> page < TotalPages(Cardinality(Matching(transactions, u, type)), limit),
                       hasPrev |-> page > 1 ] ]
  /\ UNCHANGED <<files, transactions, nextId, ocrVars, callVars>>

\* the response to a request for a transaction the query did not find
NotFound(handler, u, id) ==
  [ request |-> [handler |-> handler, userId |-> u, id |-> id],
    status |-> 404, success |-> FALSE ]

\* getTransaction
getTransaction(u, id) ==
  /\ response' = IF PlacesOwned(transactions, u, id) = {}
                   THEN NotFound("getTransaction", u, id)
                   ELSE [ request |-> [handler |-> "getTransaction", userId |-> u, id |-> id],
                          status |-> 200, success |-> TRUE,
                          transaction |-> transactions[FirstOf(PlacesOwned(transactions, u, id))] ]
  /\ UNCHANGED <<files, transactions, nextId, ocrVars, callVars>>

\* the document with the fields of the body
Updated(t, body) ==
  [t EXCEPT !.type = body.type, !.amount = body.amount, !.date = body.date]

\* updateTransaction
updateTransaction(u, id, body) ==
  /\ IF PlacesOwned(transactions, u, id) = {}
       THEN /\ response' = NotFound("updateTransaction", u, id)
            /\ UNCHANGED transactions
       ELSE /\ transactions' =
                 [transactions EXCEPT ![FirstOf(PlacesOwned(transactions, u, id))] =
                    Updated(transactions[FirstOf(PlacesOwned(transactions, u, id))], body)]
            /\ response' = [ request |-> [handler |-> "updateTransaction", userId |-> u, id |-> id],
                             status |-> 200, success |-> TRUE,
                             transaction |->
                               Updated(transactions[FirstOf(PlacesOwned(transactions, u, id))], body) ]
  /\ UNCHANGED <<files, nextId, ocrVars, callVars>>

\* deleteTransaction
deleteTransaction(u, id) ==
  /\ IF PlacesOwned(transactions, u, id) = {}
       THEN /\ response' = NotFound("deleteTransaction", u, id)
            /\ UNCHANGED transactions
       ELSE /\ transactions' = Without(transactions, FirstOf(PlacesOwned(transactions, u, id)))
            /\ response' = [ request |-> [handler |-> "deleteTransaction", userId |-> u, id |-> id],
                             status |-> 200, success |-> TRUE ]
  /\ UNCHANGED <<files, nextId, ocrVars, callVars>>

\* reduce((sum, t) => sum + t.amount, 0) over some documents
RECURSIVE SumOf(_)
SumOf(docs) ==
  IF docs = {} THEN 0
  ELSE (CHOOSE t \in docs : TRUE).amount + SumOf(docs \ {CHOOSE t \in docs : TRUE})

\* Math.max(...amounts, 0)
MaxOf(amounts) == CHOOSE m \in amounts \cup {0} : \A a \in amounts \cup {0} : a <= m

\* transactions.filter(t => t.type === 'expense') of the user in the period
ExpensesOf(txs, u) ==
  {txs[i] : i \in {j \in 1..Len(txs) : txs[j].userId = u /\ txs[j].type = "expense"}}

\* the largest single expense
MaxDailySpending(expenses) == MaxOf({t.amount : t \in expenses})

\* dailySpending[dateKey] || 0, for every day of the period
HeatmapData(expenses) ==
  [k \in 1..Len(PeriodDays) |->
     [date |-> PeriodDays[k], amount |-> SumOf({t \in expenses : t.date = PeriodDays[k]})]]

\* router.get('/analytics')
GetAnalytics(u) ==
  /\ response' = [ request |-> [handler |-> "GET /analytics", userId |-> u],
                   status |-> 200, success |-> TRUE,
                   totalExpenses |-> SumOf(ExpensesOf(transactions, u)),
                   heatmapData |-> HeatmapData(ExpensesOf(transactions, u)),
                   maxDailySpending |-> MaxDailySpending(ExpensesOf(transactions, u)) ]
  /\ UNCHANGED <<files, transactions, nextId, ocrVars, callVars>>

LedgerNext ==
  \E u \in Users :
    \/ \E body \in TransactionBodies : createTransaction(u, body)
    \/ \E page \in 1..MaxPage, limit \in 1..MaxLimit, type \in {NoType, "expense"} :
         getTransactions(u, page, limit, type)
    \/ \E id \in 1..MaxTransactions : getTransaction(u, id)
    \/ \E id \in 1..MaxTransactions, body \in UpdateBodies : updateTransaction(u, id, body)
    \/ \E id \in 1..MaxTransactions : deleteTransaction(u, id)
    \/ GetAnalytics(u)

LedgerSpec == Init /\ [][LedgerNext]_vars


\* ---------------------------------------------------------------------
\* Properties of processReceipt and of the amount extraction
\* ---------------------------------------------------------------------

\* processReceipt has returned and the OCR had given it a text
TextRead == pc = "done" /\ ~IsNull(extractedText)

\* the text the OCR gave
Text == extractedText.str

\* every character of t is white space (the empty text included)
AllWhitespace(t) == \A k \in 1..Len(t) : t[k] \in Whitespace

\* 0 < v < 100000
InRange(v) == IsNumber(v) /\ (v.int > 0 \/ v.frac # <<>>) /\ v.int < 100000

\* where the decimal point of the digits d is, or one past their end
PointOf(d) ==
  IF \E k \in 1..Len(d) : d[k] = "." THEN CHOOSE k \in 1..Len(d) : d[k] = "."
  ELSE Len(d) + 1

\* the decimal value of the digits d, which hold at most one point
ValueOfDigits(d) ==
  Number(ToNat(SubSeq(d, 1, PointOf(d) - 1)), StripZeros(SubSeq(d, PointOf(d) + 1, Len(d))))

\* the decimal value of a numeric token, its thousands separators removed
DecimalOf(token) == ValueOfDigits(SelectSeq(token, LAMBDA c : c # ","))

\* the number pattern n proposes for the text t, NaN when it has no match
RuleValue(n, t) ==
  IF StringMatch(n, t) = <<>> THEN NaN ELSE NumAmountOf(StringMatch(n, t))

\* pattern n is the first whose number is in range
Decides(n, t) ==
  InRange(RuleValue(n, t)) /\ \A k \in 1..(n - 1) : ~InRange(RuleValue(k, t))

\* the match whose text pattern n hands to the parse
ChosenMatch(n, t) ==
  IF IsGlobal(n)
  THEN IF Len(MatchAll(n, t, 1)) >= 2 THEN MatchAll(n, t, 1)[2] ELSE MatchAll(n, t, 1)[1]
  ELSE SearchFrom(n, t, 1)

\* a numeric token can start at b: no digit and no separator before it
TokenStart(t, b) == IsDigit(At(t, b)) /\ ~IsDigit(At(t, b - 1)) /\ At(t, b - 1) # ","

\* the numeric tokens of t, each as <<first index, index after the last>>
TokensOf(t) == {<<b, NumTokenEnd(t, b)>> : b \in {k \in 1..Len(t) : TokenStart(t, k)}}

\* the value of the token tk of t
TokenValue(t, tk) == DecimalOf(SubSeq(t, tk[1], tk[2] - 1))

\* the currency markers a reader recognises
CurrencyMarkers == {<<"R", "s", ".">>, <<"R", "s">>, <<"r", "s">>, <<Rupee>>}

\* a currency marker ends just before index b of t, or starts at index e
MarkerBefore(t, b) ==
  \E w \in CurrencyMarkers : b > Len(w) /\ SubSeq(t, b - Len(w), b - 1) = w

MarkerAfter(t, e) ==
  \E w \in CurrencyMarkers : e + Len(w) - 1 <= Len(t) /\ SubSeq(t, e, e + Len(w) - 1) = w

\* the digits X of a line that reads label, "Rs.", X; empty for other lines
RsDigits(line, label) ==
  IF /\ Len(line) > Len(label) + 3
     /\ SubSeq(line, 1, Len(label) + 3) = label \o <<"R", "s", ".">>
     /\ \A k \in (Len(label) + 4)..Len(line) : IsDigit(line[k])
  THEN SubSeq(line, Len(label) + 4, Len(line))
  ELSE <<>>

\* C1: whenever processReceipt returns a success result, data.amount is a
\* number (not null, not NaN), strictly greater than 0 and strictly less
\* than 100000, whatever the OCR text was
AcceptedAmountInRange ==
  pc = "done" /\ result.success =>
    /\ IsNumber(result.data.amount)
    /\ (result.data.amount.int > 0 \/ result.data.amount.frac # <<>>)
    /\ result.data.amount.int < 100000

\* a success on a text in which some pattern proposed 100000 or more
SuccessAfterTooLargeCandidate ==
  /\ TextRead
  /\ result.success
  /\ \E n \in 1..NumAmountPatterns :
       IsNumber(RuleValue(n, Text)) /\ RuleValue(n, Text).int >= 100000

\* C2: processReceipt produces exactly one outcome: success = true with a
\* data record that is not null and no error reason, or success = false
\* with an error reason and data = null; never both and never neither
ExactlyOneOutcome ==
  pc = "done" =>
    \/ /\ result.success
       /\ ~IsNull(result.data)
       /\ "error" \notin DOMAIN result
    \/ /\ ~result.success
       /\ "error" \in DOMAIN result
       /\ IsNull(result.data)

\* a failure returned for a text that was read and parsed
FailureAfterParse ==
  TextRead /\ ~AllWhitespace(Text) /\ ~result.success /\ IsNull(result.data)

\* C3: when the recognised text is empty or only white space, the result is
\* a failure whose reason is the empty-input reason, which is not the
\* amount-not-found reason, and no extracted data is returned
BlankTextIsEmptyInput ==
  TextRead /\ AllWhitespace(Text) =>
    /\ ~result.success
    /\ result.error = NoTextError
    /\ result.error # NoAmountError
    /\ IsNull(result.data)
    /\ "rawData" \notin DOMAIN result

\* a text of white space only, not empty, was refused
WhitespaceOnlyRefused ==
  TextRead /\ Len(Text) > 0 /\ AllWhitespace(Text) /\ ~result.success

\* C4: for a text that is not blank, the result is the amount-not-found
\* failure exactly when the amount extraction yields no accepted amount;
\* a missing merchant, date or item list never makes a text with an
\* accepted amount fail
FailureOnlyWithoutAmount ==
  TextRead /\ ~AllWhitespace(Text) =>
    /\ ~result.success <=> IsNull(ExtractAmount(Text))
    /\ ~result.success => result.error = NoAmountError

\* a success with no merchant, no date and no items
SuccessWithAmountOnly ==
  /\ TextRead
  /\ result.success
  /\ IsNull(result.data.merchant)
  /\ IsNull(result.rawData.parsed.date)
  /\ result.data.items = <<>>

\* C5: in a text with a line "Subtotal: Rs.X" and a later line
\* "Total: Rs.Y", X and Y in range and different, the extracted amount is
\* Y: the labeled-total pattern passes over "Subtotal"
TotalLineBeatsSubtotal ==
  TextRead =>
    \A i, j \in 1..Len(Split(Text, NL)) :
      /\ i < j
      /\ RsDigits(Split(Text, NL)[i], <<"S", "u", "b", "t", "o", "t", "a", "l", ":", " ">>) # <<>>
      /\ RsDigits(Split(Text, NL)[j], <<"T", "o", "t", "a", "l", ":", " ">>) # <<>>
      /\ InRange(DecimalOf(RsDigits(Split(Text, NL)[i], <<"S", "u", "b", "t", "o", "t", "a", "l", ":", " ">>)))
      /\ InRange(DecimalOf(RsDigits(Split(Text, NL)[j], <<"T", "o", "t", "a", "l", ":", " ">>)))
      /\ DecimalOf(RsDigits(Split(Text, NL)[i], <<"S", "u", "b", "t", "o", "t", "a", "l", ":", " ">>))
           # DecimalOf(RsDigits(Split(Text, NL)[j], <<"T", "o", "t", "a", "l", ":", " ">>))
      => /\ result.success
         /\ result.data.amount = DecimalOf(RsDigits(Split(Text, NL)[j], <<"T", "o", "t", "a", "l", ":", " ">>))

\* C6: the amount patterns are tried in the order labeled total, currency
\* led, currency trailed, bare total; the first pattern whose number is
\* accepted gives the amount and no later pattern changes it; an accepted
\* number of the labeled-total pattern is the amount even when a currency
\* marked number elsewhere in the text is larger or comes earlier
FirstAcceptedRuleWins ==
  TextRead /\ ~AllWhitespace(Text) =>
    /\ \A n \in 1..NumAmountPatterns :
         Decides(n, Text) => result.success /\ result.data.amount = RuleValue(n, Text)
    /\ (\A n \in 1..NumAmountPatterns : ~InRange(RuleValue(n, Text))) => ~result.success
    /\ IsMatch(SearchFrom(1, Text, 1))
         /\ InRange(DecimalOf(Group1(Text, SearchFrom(1, Text, 1))))
       => /\ result.success
          /\ result.data.amount = DecimalOf(Group1(Text, SearchFrom(1, Text, 1)))

\* the labeled total is the amount although a larger currency-led number
\* in range stands before it in the text
LabeledTotalBeatsEarlierLarger ==
  /\ TextRead
  /\ result.success
  /\ IsMatch(SearchFrom(1, Text, 1))
  /\ IsMatch(SearchFrom(2, Text, 1))
  /\ SearchFrom(2, Text, 1).to <= SearchFrom(1, Text, 1).from
  /\ InRange(DecimalOf(Group1(Text, SearchFrom(2, Text, 1))))
  /\ DecimalOf(Group1(Text, SearchFrom(2, Text, 1))).int > result.data.amount.int
  /\ result.data.amount = DecimalOf(Group1(Text, SearchFrom(1, Text, 1)))

\* C7: within a pattern the first match in the text is the one considered;
\* when the currency-led or the currency-trailed pattern has two or more
\* matches and gives the amount, the amount is the number of its first match
FirstMatchIsCandidate ==
  TextRead =>
    \A n \in {k \in 1..NumAmountPatterns : IsGlobal(k)} :
      Decides(n, Text) /\ Len(StringMatch(n, Text)) >= 2
      => result.data.amount = ParseFloat(CleanAmount(StringMatch(n, Text)[1]))

\* C8: the amount is the decimal value of the numeric token the winning
\* pattern matched, thousands separators removed; the characters of the
\* currency marker do not change it
AmountIsTokenValue ==
  TextRead =>
    \A n \in 1..NumAmountPatterns :
      Decides(n, Text)
      => result.data.amount = DecimalOf(Group1(Text, ChosenMatch(n, Text)))

\* C9: a numeric token N with 0 < N < 100000 that stands next to a currency
\* marker (Rs, Rs., rs or the rupee sign, before or after it) anywhere in
\* the text makes the extraction return an amount
MarkedNumberGivesAmount ==
  TextRead =>
    ( (\E tk \in TokensOf(Text) :
         /\ InRange(TokenValue(Text, tk))
         /\ MarkerBefore(Text, tk[1]) \/ MarkerAfter(Text, tk[2]))
      => result.success /\ InRange(result.data.amount) )

\* C10: when the text has numeric tokens and every one of them is 0 or is
\* 100000 or more, the extraction yields no amount, whichever pattern
\* matches them
OutOfRangeGivesNoAmount ==
  TextRead =>
    ( TokensOf(Text) # {} /\ (\A tk \in TokensOf(Text) : ~InRange(TokenValue(Text, tk)))
      => ~result.success )

\* what parseReceiptText gave, as processReceipt returns it
Parsed == result.rawData.parsed

\* 1 when the condition holds, 0 when it does not
Indicator(b) == IF b THEN 1 ELSE 0

\* C11: the confidence is an integer from 0 to 100, and it is 100 exactly
\* when amount, merchant and date are all present and the item list is
\* not empty
ConfidenceBounds ==
  pc = "done" /\ result.success =>
    /\ result.data.confidence \in 0..100
    /\ result.data.confidence = 100 <=>
         /\ IsNumber(Parsed.amount)
         /\ ~IsNull(Parsed.merchant)
         /\ ~IsNull(Parsed.date)
         /\ Parsed.items # <<>>

\* a receipt with everything on it
FullConfidence ==
  /\ TextRead
  /\ result.success
  /\ result.data.confidence = 100
  /\ ~IsNull(Parsed.merchant)
  /\ ~IsNull(Parsed.date)
  /\ Parsed.items # <<>>

\* C12: the confidence is 40 for the amount, plus 30 for a merchant, plus
\* 20 for a date, plus 10 for a list of items that is not empty; so a
\* success has a confidence of 40 at least, and a date that is not
\* recovered costs exactly 20
ConfidenceIsWeightedSum ==
  pc = "done" /\ result.success =>
    /\ result.data.confidence =
           40 * Indicator(IsNumber(Parsed.amount))
         + 30 * Indicator(~IsNull(Parsed.merchant))
         + 20 * Indicator(~IsNull(Parsed.date))
         + 10 * Indicator(Parsed.items # <<>>)
    /\ result.data.confidence >= 40

\* merchant, items and amount but no date: 20 short of the full confidence
ConfidenceWithoutDate ==
  /\ TextRead
  /\ result.success
  /\ ~IsNull(Parsed.merchant)
  /\ Parsed.items # <<>>
  /\ IsNull(Parsed.date)
  /\ result.data.confidence = 80

\* the categories, in the order the table declares them
CategoryOrder ==
  << "Food & Dining", "Transportation", "Shopping", "Healthcare", "Utilities",
     "Entertainment" >>

\* w is a substring of s
Contains(s, w) ==
  \E i \in 1..(Len(s) - Len(w) + 1) : SubSeq(s, i, i + Len(w) - 1) = w

\* the text determineCategory searches for the returned merchant and items:
\* merchant, a space, the items joined by spaces, in lower case
SearchText ==
  ToLowerCase((IF IsNull(result.data.merchant) THEN <<>> ELSE result.data.merchant.str)
              \o <<" ">> \o Join(result.data.items, <<" ">>))

\* the keywords the table lists for the category named
KeywordsOf(category) ==
  (CHOOSE e \in {categoryMappings[k] : k \in 1..Len(categoryMappings)} :
     e.category = category).keywords

\* the keywords of the category that are substrings of the text s
KeywordsIn(s, category) ==
  {k \in 1..Len(KeywordsOf(category)) : Contains(s, KeywordsOf(category)[k])}

\* C13: determineCategory returns, for every merchant (the empty one
\* included) and every item list (the empty one included), exactly one of
\* the six categories or Others, and Others exactly when no keyword of any
\* category is a substring of the search text in lower case
CategoryIsTotal ==
  pc = "done" /\ result.success =>
    /\ result.data.category \in {CategoryOrder[c] : c \in 1..Len(CategoryOrder)} \cup {"Others"}
    /\ result.data.category = "Others" <=>
         \A c \in 1..Len(CategoryOrder) : KeywordsIn(SearchText, CategoryOrder[c]) = {}

\* Others returned for no merchant and no items
OthersForEmptySearch ==
  /\ TextRead
  /\ result.success
  /\ IsNull(result.data.merchant)
  /\ result.data.items = <<>>
  /\ result.data.category = "Others"

\* C14: when the search text holds keywords of two or more categories, the
\* category returned is the one declared first, however many keywords of a
\* later category match and wherever they stand
FirstDeclaredCategoryWins ==
  pc = "done" /\ result.success =>
    \A c \in 1..Len(CategoryOrder) :
      /\ KeywordsIn(SearchText, CategoryOrder[c]) # {}
      /\ \A b \in 1..(c - 1) : KeywordsIn(SearchText, CategoryOrder[b]) = {}
      => result.data.category = CategoryOrder[c]

\* a later category has more of its keywords in the search text, and one
\* of them at its very start, yet the earlier category is returned
EarlierCategoryBeatsMoreKeywords ==
  /\ TextRead
  /\ result.success
  /\ \E c, d \in 1..Len(CategoryOrder) :
       /\ c < d
       /\ result.data.category = CategoryOrder[c]
       /\ Cardinality(KeywordsIn(SearchText, CategoryOrder[d]))
            > Cardinality(KeywordsIn(SearchText, CategoryOrder[c]))
       /\ \E k \in KeywordsIn(SearchText, CategoryOrder[d]) :
            SubSeq(SearchText, 1, Len(KeywordsOf(CategoryOrder[d])[k]))
              = KeywordsOf(CategoryOrder[d])[k]

\* " - " and the first three of the items, ", " between them; nothing for
\* no items
ItemSuffix(items) ==
  IF Len(items) = 0 THEN <<>>
  ELSE IF Len(items) = 1 THEN <<" ", "-", " ">> \o items[1]
  ELSE IF Len(items) = 2 THEN <<" ", "-", " ">> \o items[1] \o <<",", " ">> \o items[2]
  ELSE <<" ", "-", " ">> \o items[1] \o <<",", " ">> \o items[2] \o <<",", " ">> \o items[3]

\* C15: in every success whose merchant is absent the description is
\* exactly 'Receipt purchase', with or without extracted items
GenericDescriptionWithoutMerchant ==
  pc = "done" /\ result.success /\ IsNull(result.data.merchant) =>
    result.data.description = <<"R", "e", "c", "e", "i", "p", "t", " ", "p", "u", "r", "c", "h", "a", "s", "e">>

\* C16: in every success whose merchant is present the description is
\* 'Purchase at ' and the merchant, followed, when there are items, by the
\* first three of them at most, in the order of the text and joined by
\* ', '; a fourth item is never in it, and without items nothing follows
\* the merchant
DescriptionNamesMerchant ==
  pc = "done" /\ result.success /\ ~IsNull(result.data.merchant) =>
    /\ result.data.description =
         <<"P", "u", "r", "c", "h", "a", "s", "e", " ", "a", "t", " ">> \o result.data.merchant.str \o ItemSuffix(result.data.items)
    /\ result.data.items = <<>> =>
         result.data.description = <<"P", "u", "r", "c", "h", "a", "s", "e", " ", "a", "t", " ">> \o result.data.merchant.str

\* a merchant and four items or more, the fourth not one of the first three
FourthItemLeftOut ==
  /\ TextRead
  /\ result.success
  /\ ~IsNull(result.data.merchant)
  /\ Len(result.data.items) >= 4
  /\ \A k \in 1..3 : result.data.items[k] # result.data.items[4]
  /\ ~Contains(result.data.description, result.data.items[4])

\* a line a merchant can be: more than 3 and fewer than 50 characters, no
\* digit, and neither 'receipt' nor 'bill' in any letter case
CanBeMerchant(line) ==
  /\ Len(line) > 3
  /\ Len(line) < 50
  /\ \A k \in 1..Len(line) : ~IsDigit(line[k])
  /\ ~Contains(ToLowerCase(line), <<"r", "e", "c", "e", "i", "p", "t">>)
  /\ ~Contains(ToLowerCase(line), <<"b", "i", "l", "l">>)

\* the places, among the first five lines, of the lines a merchant can be
MerchantPlaces(lines) ==
  {k \in 1..Len(lines) : k <= 5 /\ CanBeMerchant(lines[k])}

\* C17: the merchant is the first of the first five non-empty trimmed lines
\* that is longer than 3 and shorter than 50 characters, has no digit and
\* has neither 'receipt' nor 'bill' in any letter case, returned as it is;
\* when none of the five is such a line the merchant is absent, even if a
\* sixth or later line is one
MerchantIsFirstOfTopFive ==
  pc = "done" /\ result.success =>
    IF MerchantPlaces(LinesOf(Text)) = {}
    THEN IsNull(Parsed.merchant)
    ELSE /\ ~IsNull(Parsed.merchant)
         /\ Parsed.merchant.str =
              LinesOf(Text)[CHOOSE k \in MerchantPlaces(LinesOf(Text)) :
                              \A j \in MerchantPlaces(LinesOf(Text)) : k <= j]

\* no merchant although the sixth line could be one
SixthLineNotSearched ==
  /\ TextRead
  /\ result.success
  /\ IsNull(Parsed.merchant)
  /\ Len(LinesOf(Text)) >= 6
  /\ CanBeMerchant(LinesOf(Text)[6])

\* the rupee sign stands next to a digit of the line, white space between
\* them or not
RupeePriced(line) ==
  \E i \in 1..Len(line) :
    /\ line[i] = Rupee
    /\ \/ IsDigit(At(line, SkipSpaces(line, i + 1)))
       \/ \E j \in 1..(i - 1) :
            IsDigit(line[j]) /\ \A k \in (j + 1)..(i - 1) : IsSpace(line[k])

\* a line whose only currency marker can be the rupee sign: the letters r
\* and s nowhere side by side, and no point
PlainLine(line) ==
  /\ ~Contains(ToLowerCase(line), <<"r", "s">>)
  /\ \A k \in 1..Len(line) : line[k] # "."

\* a plain line without its digits, white space, rupee signs and hyphens
PlainName(line) ==
  SelectSeq(line, LAMBDA c : ~IsDigit(c) /\ ~IsSpace(c) /\ c # Rupee /\ c # "-")

\* a plain line that has a price and a name longer than 2 characters
PlainItemLine(line) ==
  PlainLine(line) /\ RupeePriced(line) /\ Len(PlainName(line)) > 2

\* C18: the item list has one entry per qualifying line (a numeric token
\* next to a currency marker, and a cleaned text longer than 2 characters),
\* in the order of the text, duplicates kept and no limit on the count, and
\* every entry is longer than 2 characters; stated for the texts whose
\* priced lines are all plain, where the cleaned text is not in question
OneItemPerQualifyingLine ==
  pc = "done" /\ result.success
    /\ (\A k \in 1..Len(LinesOf(Text)) :
          HasItemPrice(LinesOf(Text)[k]) => PlainLine(LinesOf(Text)[k]))
  => /\ Len(Parsed.items)
          = Cardinality({k \in 1..Len(LinesOf(Text)) : PlainItemLine(LinesOf(Text)[k])})
     /\ \A k \in 1..Len(Parsed.items) : Len(Parsed.items[k]) > 2

\* C19: an item is its line with the digits, the white space, the currency
\* symbols and codes and the hyphens removed and nothing else: letters that
\* are not part of a currency code stay, as the r of Burger; stated for the
\* plain lines, where the rupee sign is the only currency marker
ItemKeepsItsLetters ==
  pc = "done" /\ result.success =>
    \A k \in 1..Len(LinesOf(Text)) :
      PlainItemLine(LinesOf(Text)[k])
      => \E j \in 1..Len(Parsed.items) : Parsed.items[j] = PlainName(LinesOf(Text)[k])

\* the digits N of a line that is letters, spaces, 'Rs.' and N; else empty
ItemRsDigits(line) ==
  IF \E i \in 2..(Len(line) - 3) :
       /\ SubSeq(line, i, i + 2) = <<"R", "s", ".">>
       /\ \A k \in 1..(i - 1) : ~IsDigit(line[k]) /\ line[k] # Rupee
       /\ \A k \in (i + 3)..Len(line) : IsDigit(line[k])
  THEN SubSeq(line, (CHOOSE i \in 2..(Len(line) - 3) : SubSeq(line, i, i + 2) = <<"R", "s", ".">>) + 3,
              Len(line))
  ELSE <<>>

\* the text is a merchant heading with a category keyword, an item line
\* '<item> Rs.N' and the line 'Total: Rs.N', N in range, and has no date
HeadingItemTotal(lines) ==
  /\ Len(lines) = 3
  /\ CanBeMerchant(lines[1])
  /\ \E c \in 1..Len(CategoryOrder) : KeywordsIn(ToLowerCase(lines[1]), CategoryOrder[c]) # {}
  /\ ItemRsDigits(lines[2]) # <<>>
  /\ RsDigits(lines[3], <<"T", "o", "t", "a", "l", ":", " ">>) = ItemRsDigits(lines[2])
  /\ InRange(DecimalOf(ItemRsDigits(lines[2])))

\* C20: a merchant heading, one priced item line '<item> Rs.N' and the
\* line 'Total: Rs.N', without a date, give a success with that merchant,
\* the amount N, the category of the merchant's keyword, an item list of
\* one entry and the confidence 80
HeadingItemTotalScenario ==
  TextRead /\ HeadingItemTotal(LinesOf(Text)) =>
    /\ result.success
    /\ result.data.merchant = String(LinesOf(Text)[1])
    /\ result.data.amount = DecimalOf(ItemRsDigits(LinesOf(Text)[2]))
    /\ \E c \in 1..Len(CategoryOrder) :
         /\ KeywordsIn(ToLowerCase(LinesOf(Text)[1]), CategoryOrder[c]) # {}
         /\ result.data.category = CategoryOrder[c]
    /\ Len(result.data.items) = 1
    /\ result.data.confidence = 80

\* the date string date pattern n captures in the text t parsed, an invalid
\* date when the pattern has no match
TierDate(n, t) ==
  IF IsMatch(DateSearchFrom(n, t, 1))
  THEN NewDate(Group1(t, DateSearchFrom(n, t, 1)))
  ELSE InvalidDate

\* C21: the date patterns are tried in the order numeric date, day with
\* month name and year, labeled date; a first match that is no calendar
\* date, as 32/13/2024, passes on to the next pattern, and when no pattern
\* gives a date the date is absent: the success then carries the current
\* time as its date and a confidence without the 20 points of the date
DatePatternsFallThrough ==
  pc = "done" /\ result.success =>
    /\ \A n \in 1..NumDatePatterns :
         /\ TierDate(n, Text).kind = "date"
         /\ \A k \in 1..(n - 1) : TierDate(k, Text).kind # "date"
         => Parsed.date = TierDate(n, Text) /\ result.data.date = TierDate(n, Text)
    /\ (\A n \in 1..NumDatePatterns : TierDate(n, Text).kind # "date")
         => /\ IsNull(Parsed.date)
            /\ result.data.date = Now
            /\ result.data.confidence =
                   40 + 30 * Indicator(~IsNull(Parsed.merchant))
                      + 10 * Indicator(Parsed.items # <<>>)

\* the numeric pattern matched 32/13/2024, and the date is the one the
\* labeled pattern found
LabeledDateAfterInvalidNumeric ==
  /\ TextRead
  /\ result.success
  /\ IsMatch(DateSearchFrom(1, Text, 1))
  /\ Group1(Text, DateSearchFrom(1, Text, 1)) = <<"3", "2", "/", "1", "3", "/", "2", "0", "2", "4">>
  /\ TierDate(3, Text).kind = "date"
  /\ Parsed.date = TierDate(3, Text)
  /\ result.data.confidence >= 60
-----------------------------------------------------------------------------
(* calls in flight together *)

\* the calls that have returned a result of a parse
Returned(c) == calls[c].pc = "done" /\ ~IsNull(calls[c].text)

\* the fields of a result that depend on the text alone
TextFields(r) ==
  IF r.success
    THEN <<r.data.amount, r.data.merchant, r.data.items, r.data.category,
           r.data.description, r.data.confidence>>
    ELSE <<r.error>>

-----------------------------------------------------------------------------
(* nothing raised *)

\* the reasons the catch block of processReceipt can report
FailureReasons == {AccessError, OcrError, NoTextError, NoAmountError}

\* a value a tier of parseReceiptText may end with: found or absent
FoundOrAbsent(p) ==
  /\ IsNull(p.amount) \/ IsNumber(p.amount)
  /\ IsNull(p.merchant) \/ p.merchant.kind = "string"
  /\ IsNull(p.date) \/ p.date.kind = "date"
  /\ p.items \in Seq(Seq(STRING))

\* C23: no text makes the parse raise: each tier ends with a value or with
\* absence, and processReceipt hands every failure to its caller as a
\* returned failure value, never as a rejection
NothingRaised ==
  /\ pc = "parse" => FoundOrAbsent(ParseReceiptText(extractedText.str))
  /\ pc = "done" =>
       /\ "success" \in DOMAIN result
       /\ "thrown" \notin DOMAIN result
       /\ ~result.success => result.error \in FailureReasons /\ IsNull(result.data)

\* a text in which every tier finds nothing was parsed and the failure was
\* returned
EveryTierAbsentReturned ==
  /\ TextRead /\ ~AllWhitespace(Text)
  /\ ParseReceiptText(Text) =
       [amount |-> Null, merchant |-> Null, date |-> Null, items |-> <<>>, rawText |-> Text]
  /\ result = FailureResult(NoAmountError)

-----------------------------------------------------------------------------
(* the receipt handlers *)

\* the response answers an upload
AnswersUpload == response # Null /\ response.request.handler \in {"uploadReceipt", "POST /upload"}

\* the processing reported by the response to an upload succeeded
ProcessingSucceeded ==
  IF response.request.handler = "uploadReceipt"
    THEN response.status = 200
    ELSE response.extractedData.success

\* C24: once the response to an upload whose processing failed has been
\* sent, the uploaded file is no longer in the receipt storage: a file stays
\* stored only after a successful processing
FailedUploadLeavesNoFile ==
  (AnswersUpload /\ ~ProcessingSucceeded) => response.request.file \notin files

\* the transactions of the collection that the others own
OfOthers(txs, u) == SelectSeq(txs, LAMBDA t : t.userId # u)

\* processReceipt extracted an amount greater than zero
PositiveAmountExtracted(r) == r.success /\ GreaterThanZero(r.data.amount)

\* C25: a POST /upload whose processing extracts a positive amount persists
\* exactly one transaction: an expense of the requester with that amount,
\* receiptId the stored file name and isFromReceipt true; one whose
\* processing extracts no positive amount persists none
UploadPersistsOneExpense ==
  [][ \A u \in Users, name \in FileNames, r \in ProcessReceiptResults :
        PostUpload(u, name, r) =>
          IF PositiveAmountExtracted(r)
            THEN /\ Len(transactions') = Len(transactions) + 1
                 /\ SubSeq(transactions', 1, Len(transactions)) = transactions
                 /\ transactions'[Len(transactions')].userId = u
                 /\ transactions'[Len(transactions')].type = "expense"
                 /\ transactions'[Len(transactions')].amount = r.data.amount
                 /\ transactions'[Len(transactions')].receiptId = name
                 /\ transactions'[Len(transactions')].isFromReceipt
            ELSE transactions' = transactions ]_vars

\* C28: a receipt delete by a user who owns no transaction linked to the
\* receipt leaves the stored files and the transactions as they were; a
\* delete removes a file only together with a transaction of the requester,
\* and never touches a transaction of another user
ReceiptDeleteKeepsOthers ==
  [][ \A u \in Users, f \in FileNames :
        (deleteReceipt(u, f) \/ DeleteFilename(u, f)) =>
          /\ LinkedTo(transactions, u, f) = {}
               => files' = files /\ transactions' = transactions
          /\ files' # files => Len(transactions') < Len(transactions)
          /\ OfOthers(transactions', u) = OfOthers(transactions, u) ]_vars

-----------------------------------------------------------------------------
(* the transaction handlers *)

\* the response answers a listing
AnswersListing == response # Null /\ response.request.handler = "getTransactions"

\* the transactions the listing asked for match
Listed == Matching(transactions, response.request.userId, response.request.type)

\* the place of a matching transaction in the date-descending order
PlaceOf(t) == 1 + Cardinality({x \in Listed : SortsBefore(x, t)})

\* the pages at whose place k the transaction t is returned
PagesWith(t) ==
  {pk \in (1..response.pagination.totalPages) \X (1..response.request.limit) :
     /\ pk[2] <= Len(PageOf(transactions, response.request.userId, response.request.type,
                            pk[1], response.request.limit))
     /\ PageOf(transactions, response.request.userId, response.request.type,
               pk[1], response.request.limit)[pk[2]] = t}

\* C26: for page p and limit l over n matching transactions, totalPages is
\* the ceiling of n / l, hasPrev is p > 1, hasNext is p < totalPages, page p
\* holds the transactions at places (p-1)*l+1 .. min(p*l, n) of the
\* date-descending order, and the pages 1..totalPages return every matching
\* transaction exactly once
ListingIsPaged ==
  AnswersListing =>
    /\ response.pagination.totalPages * response.request.limit >= Cardinality(Listed)
    /\ (response.pagination.totalPages - 1) * response.request.limit < Cardinality(Listed)
         \/ (response.pagination.totalPages = 0 /\ Listed = {})
    /\ response.pagination.hasPrev <=> response.request.page > 1
    /\ response.pagination.hasNext <=> response.request.page < response.pagination.totalPages
    /\ \A t \in Listed :
         ((response.request.page - 1) * response.request.limit < PlaceOf(t)
            /\ PlaceOf(t) <= response.request.page * response.request.limit)
           => /\ PlaceOf(t) - (response.request.page - 1) * response.request.limit
                   \in DOMAIN response.transactions
              /\ response.transactions[PlaceOf(t) - (response.request.page - 1) * response.request.limit] = t
    /\ \A k \in DOMAIN response.transactions :
         /\ response.transactions[k] \in Listed
         /\ PlaceOf(response.transactions[k]) = (response.request.page - 1) * response.request.limit + k
    /\ \A t \in Listed : Cardinality(PagesWith(t)) = 1

\* the second page of two, holding the older of two transactions of one day
LastPageOfTwo ==
  /\ AnswersListing
  /\ response.request.page = 2 /\ response.request.limit = 1
  /\ Cardinality(Listed) = 2
  /\ \A t \in Listed : t.date = 1
  /\ response.pagination.totalPages = 2
  /\ Len(response.transactions) = 1
  /\ response.transactions[1].createdAt < 2
  /\ response.pagination.hasPrev /\ ~response.pagination.hasNext


\* the response answers a get, an update or a delete by id
AnswersById ==
  /\ response # Null
  /\ response.request.handler \in {"getTransaction", "updateTransaction", "deleteTransaction"}

\* C27: a get, update or delete by id reads, changes or removes only a
\* transaction whose userId is the authenticated one: the transactions of
\* the others stay as they are, the transaction returned is the
\* requester's, and a request naming a transaction that is not the
\* requester's is answered 404 with the whole store unchanged
OnlyOwnerReachesTransaction ==
  [][ AnswersById' =>
        /\ OfOthers(transactions', response'.request.userId)
             = OfOthers(transactions, response'.request.userId)
        /\ "transaction" \in DOMAIN response'
             => response'.transaction.userId = response'.request.userId
        /\ (\A i \in 1..Len(transactions) :
              transactions[i].id = response'.request.id
                => transactions[i].userId # response'.request.userId)
             => /\ response'.status = 404
                /\ transactions' = transactions
                /\ files' = files ]_vars

\* a request by id for a transaction of another user was answered 404, and
\* the transaction is still there
OthersTransactionRefused ==
  /\ AnswersById
  /\ response.status = 404
  /\ \E i \in 1..Len(transactions) :
       /\ transactions[i].id = response.request.id
       /\ transactions[i].userId # response.request.userId


\* C30: in the response of the period analytics, maxDailySpending is at
\* least the amount of every heatmapData entry, the summed expenses of its
\* day
MaxDailySpendingBoundsHeatmap ==
  (response # Null /\ response.request.handler = "GET /analytics") =>
    \A k \in DOMAIN response.heatmapData :
      response.heatmapData[k].amount <= response.maxDailySpending

-----------------------------------------------------------------------------
(* the categories and the schema *)

\* C29: every category determineCategory can return, a category of the
\* table or the fallback, is in the category enum of the Transaction
\* schema, and so is the category of every success result
CategoryIsInSchemaEnum ==
  /\ \A k \in 1..Len(categoryMappings) : categoryMappings[k].category \in CategoryEnum
  /\ determineCategory(<<>>, <<>>) \in CategoryEnum
  /\ (pc = "done" /\ result.success) => result.data.category \in CategoryEnum

\* a success whose category is the fallback, and the schema holds it
FallbackCategoryInEnum ==
  /\ pc = "done" /\ result.success
  /\ result.data.category = "Others"
  /\ result.data.category \in CategoryEnum

====
